---- MODULE Spec2Model ----
(***************************************************************************)
(* Model of the extraction-and-validation pipeline of veritas-dev          *)
(* (backend/app/services/enhanced_ai_service.py).                          *)
(*                                                                         *)
(*   Spec       the Audit Engine: run_direct_comprehensive_audit and       *)
(*              _process_direct_audit_batch, the LLM being an adversary    *)
(*              that may raise, answer unparseable text, or answer any     *)
(*              list of records.                                           *)
(*                                                                         *)
(* Text is modelled as a sequence of one-character strings, so that        *)
(* slicing, substring tests and concatenation are computed as Python       *)
(* computes them.                                                          *)
(***************************************************************************)
EXTENDS Integers, Sequences, FiniteSets, TLC

VARIABLES
    \* run_direct_comprehensive_audit
    pc,                 \* position of the audit
    pdf_values,         \* argument: the ExtractedValues, in input order
    excel_values,       \* argument: the SourceValues
    i,                  \* loop variable of range(0, len(pdf_values), batch_size)
    all_audit_results,  \* list accumulated by the loop
    report,             \* the returned dict, NoReport until the return
    batch_errors,       \* history: batch number -> message of the exception caught for it
    replies,            \* history: per batch, the kind of LLM reply and its number of records
    \* _parse_gemini_json_response_robust
    reply_text,         \* argument response_text: the text of the LLM reply
    reply_context,      \* argument context: the context string
    context_kind,       \* history: which caller built the context
    payload,            \* history: the JSON text response_text is a rendering of, if any
    normalized,         \* the returned dictionary and the return taken, NotCalled before
    \* _validate_and_enhance_coordinates
    page_result,        \* argument: the parsed page reply
    enhanced,           \* the outcome: the returned dictionary or the exception
    \* extract_comprehensive_pdf_data
    pdf_pc,             \* position: "idle", "pages", "done" or "raised"
    doc_len,            \* len(doc)
    page_num,           \* loop variable of range(len(doc))
    page_analyses,      \* list accumulated by the loop
    failed_pages,       \* history: the pages that took the except branch of line 140
    synthesis_reply,    \* history: what the synthesis LLM call did
    comprehensive_data, \* the returned dictionary, NotCalled before
    \* analyze_excel_comprehensive
    xl_pc,              \* position: "idle", "sheet", "high_value", "standard", "done", "raised"
    wb_sheets,          \* the workbook: per sheet its name and its numeric cells
    sheet_pos,          \* i of line 171: number of sheets done
    sheet_numeric,      \* numeric_cells of the sheet in work
    sheet_high,         \* high_value_cells of the sheet in work
    sheet_remaining,    \* remaining_cells of the sheet in work
    next_batch,         \* batch_index of the loop of line 332
    sheet_sources,      \* all_potential_sources of the sheet in work (line 318)
    workbook_sources,   \* all_potential_sources of the workbook (line 169)
    analyses_done,      \* sheet_analyses
    batch_calls,        \* history: the LLM batch calls issued, in order
    workbook_analysis,  \* the returned dictionary, NotCalled before
    \* the cell loops of _extract_full_excel_sheet_structure and
    \* _extract_comprehensive_sheet_data
    inv_pc,             \* position: "idle", "cells" or "done"
    inv_service,        \* which of the two functions runs
    inv_side,           \* max_row and max_col of the processed range
    inv_at,             \* number of cells of the range visited, in row-major order
    inv_cells,          \* the dictionary cells_data, as the list of its entries
    inv_numeric,        \* the list numeric_cells
    inv_text,           \* the list text_cells
    inv_raised,         \* history: the cells whose access raised
    inv_empty,          \* history: the cells whose value is None
    inv_structure,      \* the returned dictionary, NotCalled before
    \* extract_data_comprehensive
    ws_pc,              \* position: "idle", "sheets", "done" or "raised"
    total_sheets,       \* len(workbook.sheetnames)
    ws_pos,             \* number of sheets the loop of line 58 has visited
    sheets_data,        \* the dictionary sheets_data, as the list of its keys
    comprehensive_statistics,   \* the dictionary of lines 48-56
    ws_failed,          \* history: the sheets whose extraction raised
    ws_result,          \* the returned dictionary, NotCalled before
    \* the two scoring functions
    scored_cells,       \* the pair of cell records scored, <<>> before
    scores,             \* the scores of the pair, by function
    \* the event loop that runs run_comprehensive_audit
    loop_pc,            \* position of run_comprehensive_audit: "idle", "gather" or "done"
    mappings,           \* len(validation_tasks)
    batch_start,        \* i of the loop of line 42
    task_pc,            \* per task of the gathered batch: "pending", "calling" or "done"
    units_left,         \* units the extraction request has still to send to the LLM
    unit_pc,            \* position of the extraction request: "ready", "calling", "sleeping"
    \* the run_audit endpoint
    audit_session,      \* the row of the audit session, NoSession before its creation
    requests,           \* per request: position, server process, loaded status, outcome
    audit_runs,         \* history: executions of run_comprehensive_audit
    utcnow              \* the clock read by datetime.utcnow()

auditVars == <<pc, pdf_values, excel_values, i, all_audit_results, report, batch_errors, replies>>
normalizerVars == <<reply_text, reply_context, context_kind, payload, normalized>>
coordinateVars == <<page_result, enhanced>>
pdfVars == <<pdf_pc, doc_len, page_num, page_analyses, failed_pages, synthesis_reply, comprehensive_data>>
excelVars == <<xl_pc, wb_sheets, sheet_pos, sheet_numeric, sheet_high, sheet_remaining, next_batch,
               sheet_sources, workbook_sources, analyses_done, batch_calls, workbook_analysis>>
inventoryVars == <<inv_pc, inv_service, inv_side, inv_at, inv_cells, inv_numeric, inv_text,
                   inv_raised, inv_empty, inv_structure>>
workbookVars == <<ws_pc, total_sheets, ws_pos, sheets_data, comprehensive_statistics, ws_failed,
                  ws_result>>
scorerVars == <<scored_cells, scores>>
loopVars == <<loop_pc, mappings, batch_start, task_pc, units_left, unit_pc>>
sessionVars == <<audit_session, requests, audit_runs, utcnow>>
serviceVars == <<inventoryVars, workbookVars, scorerVars, loopVars, sessionVars>>
vars == <<auditVars, normalizerVars, coordinateVars, pdfVars, excelVars, serviceVars>>

-----------------------------------------------------------------------------
(* Bounds of the model *)

MaxPdf == 6      \* longest pdf_values list drawn
MaxExcel == 1    \* longest excel_values list drawn
MaxContextNum == 2   \* page, batch and sheet-batch numbers drawn for context strings
MaxPages == 3        \* longest document drawn
MaxSheets == 2       \* most sheets of a workbook drawn
MaxSide == 3         \* longest side of the cell range drawn
MaxFailing == 1      \* most cells of a range whose access raises
MaxEmpty == 1        \* most empty cells of a range
MaxWorkbook == 3     \* most sheets of a small workbook drawn
MaxSkipped == 2      \* most sheets of a workbook whose extraction raises
MaxMappings == 6     \* most confirmed mappings of an audit
MaxUnits == 2        \* pages the extraction request has still to send
MaxConfirmed == 2    \* most confirmed mappings of a stored audit session
MaxRequests == 3     \* run_audit requests on the session
MaxWorkers == 2      \* server processes that share the database

(* Program constants *)

batch_size == 5          \* enhanced_ai_service.py:653
ErrorMessageCap == 100   \* enhanced_ai_service.py:788, str(e)[:100]
LowRiskFloor == 85       \* enhanced_ai_service.py:684
MediumRiskFloor == 70    \* enhanced_ai_service.py:684
MinBoxSize == 20         \* enhanced_ai_service.py:925, 0.01 in units of 0.0005
SynthesisPromptCap == 100   \* enhanced_ai_service.py:866, all_values[:100]
max_cells_per_batch == 200     \* enhanced_ai_service.py:33
max_sheets_per_workbook == 50  \* enhanced_ai_service.py:34
max_sheets_to_process == 50    \* excel_service.py:15
GatherSize == 5                \* audit_service.py:39, batch_size
max_concurrent_ai_requests == 3    \* config.py:38
HighValueCap == 500            \* enhanced_ai_service.py:503, high_value_cells[:500]
HighValueScore == 3            \* enhanced_ai_service.py:495, score >= 3
FallbackCells == 10            \* enhanced_ai_service.py:448, cells_batch[:10]
PresentationThreshold == 30    \* enhanced_ai_service.py:429, 0.3 in hundredths
FallbackLikelihood == 50       \* enhanced_ai_service.py:444, 0.5 in hundredths
HighLikelihood == 70           \* enhanced_ai_service.py:580, 0.7 in hundredths
MediumLikelihood == 40         \* enhanced_ai_service.py:581, 0.4 in hundredths

-----------------------------------------------------------------------------
(* Helpers: Python list and string primitives *)

\* a list given by its elements, held as a list
Listed(s) == IF s = <<>> THEN <<>> ELSE s

Min(a, b) == IF a < b THEN a ELSE b
Max(a, b) == IF a > b THEN a ELSE b

\* s[a:b] of Python, 0-based, half-open, for 0 <= a
Slice(s, a, b) == SubSeq(s, a + 1, Min(b, Len(s)))

\* sub in s
Contains(s, sub) ==
    \E k \in 0..(Len(s) - Len(sub)) : SubSeq(s, k + 1, k + Len(sub)) = sub

\* len([r for r in results if r.get("validation_status") == status])

\* str(n) for 0 <= n <= 99
Digit(d) == <<"0", "1", "2", "3", "4", "5", "6", "7", "8", "9">>[d + 1]
Str(n) ==
    IF n < 10 THEN <<Digit(n)>>
    ELSE IF n < 100 THEN <<Digit(n \div 10), Digit(n % 10)>>
    ELSE <<Digit(n \div 100), Digit((n \div 10) % 10), Digit(n % 10)>>

NoReport == [none |-> TRUE]

(* Dictionary keys and string literals of the source, as text *)

K_batch_results == <<"b", "a", "t", "c", "h", "_", "r", "e", "s", "u", "l", "t", "s">>
K_pdf_value_id == <<"p", "d", "f", "_", "v", "a", "l", "u", "e", "_", "i", "d">>
K_pdf_value == <<"p", "d", "f", "_", "v", "a", "l", "u", "e">>
K_pdf_context == <<"p", "d", "f", "_", "c", "o", "n", "t", "e", "x", "t">>
K_validation_status == <<"v", "a", "l", "i", "d", "a", "t", "i", "o", "n", "_", "s", "t", "a", "t", "u", "s">>
K_excel_match == <<"e", "x", "c", "e", "l", "_", "m", "a", "t", "c", "h">>
K_confidence == <<"c", "o", "n", "f", "i", "d", "e", "n", "c", "e">>
K_audit_reasoning == <<"a", "u", "d", "i", "t", "_", "r", "e", "a", "s", "o", "n", "i", "n", "g">>
K_original_pdf_data == <<"o", "r", "i", "g", "i", "n", "a", "l", "_", "p", "d", "f", "_", "d", "a", "t", "a">>
K_batch_number == <<"b", "a", "t", "c", "h", "_", "n", "u", "m", "b", "e", "r">>
K_error == <<"e", "r", "r", "o", "r">>
K_coordinates == <<"c", "o", "o", "r", "d", "i", "n", "a", "t", "e", "s">>
K_bounding_box == <<"b", "o", "u", "n", "d", "i", "n", "g", "_", "b", "o", "x">>
K_center_point == <<"c", "e", "n", "t", "e", "r", "_", "p", "o", "i", "n", "t">>
K_id == <<"i", "d">>
K_value == <<"v", "a", "l", "u", "e">>
K_business_context == <<"b", "u", "s", "i", "n", "e", "s", "s", "_", "c", "o", "n", "t", "e", "x", "t">>
K_semantic_meaning == <<"s", "e", "m", "a", "n", "t", "i", "c", "_", "m", "e", "a", "n", "i", "n", "g">>
K_page_number == <<"p", "a", "g", "e", "_", "n", "u", "m", "b", "e", "r">>
K_page_dimensions == <<"p", "a", "g", "e", "_", "d", "i", "m", "e", "n", "s", "i", "o", "n", "s">>
K_width == <<"w", "i", "d", "t", "h">>
K_height == <<"h", "e", "i", "g", "h", "t">>
K_extracted_values == <<"e", "x", "t", "r", "a", "c", "t", "e", "d", "_", "v", "a", "l", "u", "e", "s">>
K_batch_analysis == <<"b", "a", "t", "c", "h", "_", "a", "n", "a", "l", "y", "s", "i", "s">>
K_suggested_mappings == <<"s", "u", "g", "g", "e", "s", "t", "e", "d", "_", "m", "a", "p", "p", "i", "n", "g", "s">>
K_mapping_quality_assessment == <<"m", "a", "p", "p", "i", "n", "g", "_", "q", "u", "a", "l", "i", "t", "y", "_", "a", "s", "s", "e", "s", "s", "m", "e", "n", "t">>
K_overall_coverage == <<"o", "v", "e", "r", "a", "l", "l", "_", "c", "o", "v", "e", "r", "a", "g", "e">>

S_matched == <<"m", "a", "t", "c", "h", "e", "d">>
S_mismatched == <<"m", "i", "s", "m", "a", "t", "c", "h", "e", "d">>
S_formatting_difference == <<"f", "o", "r", "m", "a", "t", "t", "i", "n", "g", "_", "d", "i", "f", "f", "e", "r", "e", "n", "c", "e">>
S_unverifiable == <<"u", "n", "v", "e", "r", "i", "f", "i", "a", "b", "l", "e">>
S_pdf_only == <<"p", "d", "f", "_", "o", "n", "l", "y">>
S_unknown == <<"u", "n", "k", "n", "o", "w", "n">>

AuditErrorPrefix == <<"A", "u", "d", "i", "t", " ", "e", "r", "r", "o", "r", ":", " ">>
IncompleteReasoning == <<"B", "a", "t", "c", "h", " ", "p", "r", "o", "c", "e", "s", "s", "i", "n", "g", " ", "i", "n", "c", "o", "m", "p", "l", "e", "t", "e">>
JsonFailedPrefix == <<"J", "S", "O", "N", " ", "p", "a", "r", "s", "i", "n", "g", " ", "f", "a", "i", "l", "e", "d", " ", "f", "o", "r", " ">>
DirectAuditContextPrefix == <<"d", "i", "r", "e", "c", "t", "_", "a", "u", "d", "i", "t", "_", "b", "a", "t", "c", "h", "_">>
TypeErrorMessage == <<"o", "b", "j", "e", "c", "t", " ", "o", "f", " ", "t", "y", "p", "e", " ", "'", "N", "o", "n", "e", "T", "y", "p", "e", "'", " ", "h", "a", "s", " ", "n", "o", " ", "l", "e", "n", "(", ")">>
AttributeErrorMessage == <<"'", "s", "t", "r", "'", " ", "o", "b", "j", "e", "c", "t", " ", "h", "a", "s", " ", "n", "o", " ", "a", "t", "t", "r", "i", "b", "u", "t", "e", " ", "'", "u", "p", "d", "a", "t", "e", "'">>
UpperChars == <<"A", "B", "C", "D", "E", "F", "G", "H", "I", "J", "K", "L", "M", "N", "O", "P", "Q", "R", "S", "T", "U", "V", "W", "X", "Y", "Z">>
LowerChars == <<"a", "b", "c", "d", "e", "f", "g", "h", "i", "j", "k", "l", "m", "n", "o", "p", "q", "r", "s", "t", "u", "v", "w", "x", "y", "z">>

-----------------------------------------------------------------------------
(* JSON values, as json.loads returns them and as the code builds them *)

JObject(f) == [type |-> "object", fields |-> f]
JArray(items) == [type |-> "array", items |-> items]
JString(chars) == [type |-> "string", chars |-> chars]
JNumber(n) == [type |-> "number", n |-> n]
JNull == [type |-> "null"]
JTrue == [type |-> "true"]
JFalse == [type |-> "false"]
EmptyDict == JObject(<<>>)

\* d.get(key, default)
Get(d, key, default) == IF key \in DOMAIN d.fields THEN d.fields[key] ELSE default

\* d.update(other): the keys of other win
Update(d, other) == JObject(other.fields @@ d.fields)

\* s.lower(), on the letters A-Z
LowerChar(c) ==
    IF \E k \in 1..Len(UpperChars) : UpperChars[k] = c
    THEN LowerChars[CHOOSE k \in 1..Len(UpperChars) : UpperChars[k] = c]
    ELSE c
Lower(s) == [k \in 1..Len(s) |-> LowerChar(s[k])]

-----------------------------------------------------------------------------
(* The Response Normalizer's last resort *)

\* _get_fallback_structure(context): the if/elif chain on the context text
get_fallback_structure(context) ==
    LET error == JString(JsonFailedPrefix \o context) IN
    IF Contains(context, <<"p", "a", "g", "e", "_">>) THEN
        JObject((K_page_number :> JNumber(1))
             @@ (K_page_dimensions :>
                    JObject((K_width :> JNumber(800)) @@ (K_height :> JNumber(600))))
             @@ (K_extracted_values :> JArray(<<>>))
             @@ (K_error :> error))
    ELSE IF Contains(context, <<"e", "x", "c", "e", "l", "_", "b", "a", "t", "c", "h">>) THEN
        JObject((K_batch_analysis :> JArray(<<>>)) @@ (K_error :> error))
    ELSE IF Contains(Lower(context), <<"m", "a", "p", "p", "i", "n", "g">>) THEN
        JObject((K_suggested_mappings :> JArray(<<>>))
             @@ (K_mapping_quality_assessment :>
                    JObject(K_overall_coverage :> JNumber(0)))
             @@ (K_error :> error))
    ELSE IF Contains(Lower(context), <<"a", "u", "d", "i", "t">>) THEN
        JObject((K_batch_results :> JArray(<<>>)) @@ (K_error :> error))
    ELSE
        JObject(K_error :> error)

-----------------------------------------------------------------------------
(* The Response Normalizer: text primitives *)

\* The backtick cannot be written in a string of this language: "bt" stands for it.
Backtick == "bt"
Fence == <<Backtick, Backtick, Backtick>>
FenceJson == Fence \o <<"j", "s", "o", "n">>

Letters == {LowerChars[k] : k \in 1..Len(LowerChars)} \cup {UpperChars[k] : k \in 1..Len(UpperChars)}
Digits == {"0", "1", "2", "3", "4", "5", "6", "7", "8", "9"}
\* \s of re and the characters str.strip() removes
IsSpace(c) == c \in {" ", "\n", "\t", "\r"}
\* [a-zA-Z_] and [a-zA-Z0-9_] (the latter also the word characters of \b)
IsIdentStart(c) == c \in Letters \cup {"_"}
IsIdentChar(c) == c \in Letters \cup Digits \cup {"_"}

StartsWith(s, prefix) == Len(s) >= Len(prefix) /\ SubSeq(s, 1, Len(prefix)) = prefix
EndsWith(s, suffix) ==
    Len(s) >= Len(suffix) /\ SubSeq(s, Len(s) - Len(suffix) + 1, Len(s)) = suffix

\* s starts with word at position k (1-based)
MatchAt(s, k, word) == k + Len(word) - 1 <= Len(s) /\ SubSeq(s, k, k + Len(word) - 1) = word

\* first position >= k that holds no white space (Len(s) + 1 when there is none)
SkipSpaces(s, k) ==
    CHOOSE p \in k..(Len(s) + 1) :
        /\ p = Len(s) + 1 \/ ~IsSpace(s[p])
        /\ \A q \in k..(p - 1) : IsSpace(s[q])

\* first position >= k that holds no identifier character
SkipIdent(s, k) ==
    CHOOSE p \in k..(Len(s) + 1) :
        /\ p = Len(s) + 1 \/ ~IsIdentChar(s[p])
        /\ \A q \in k..(p - 1) : IsIdentChar(s[q])

\* first position >= k that holds character c, 0 when there is none
FindChar(s, k, c) ==
    IF \E p \in k..Len(s) : s[p] = c
    THEN CHOOSE p \in k..Len(s) : s[p] = c /\ \A q \in k..(p - 1) : s[q] # c
    ELSE 0

\* response_text.strip()
Strip(s) ==
    LET first == SkipSpaces(s, 1)
        Last[k \in 0..Len(s)] == IF k = 0 \/ ~IsSpace(s[k]) THEN k ELSE Last[k - 1]
    IN  IF first > Len(s) THEN <<>> ELSE SubSeq(s, first, Last[Len(s)])

\* lines 943-952: strip, then drop a leading ```json or ``` and a trailing ```
StripFences(response_text) ==
    LET stripped == Strip(response_text)
        opened == IF StartsWith(stripped, FenceJson) THEN Slice(stripped, 7, Len(stripped))
                  ELSE IF StartsWith(stripped, Fence) THEN Slice(stripped, 3, Len(stripped))
                  ELSE stripped
    IN  IF EndsWith(opened, Fence) THEN Slice(opened, 0, Len(opened) - 3) ELSE opened

\* first position >= k that holds one of the two characters, 0 when there is none
FindEither(s, k, c, d) ==
    IF \E p \in k..Len(s) : s[p] \in {c, d}
    THEN CHOOSE p \in k..Len(s) : s[p] \in {c, d} /\ \A q \in k..(p - 1) : s[q] \notin {c, d}
    ELSE 0

\* lines 955-968: the loop over the characters from position k (1-based) on,
\* stepping from brace to brace (no other character changes a variable);
\* json_start and json_end are 1-based positions, 0 standing for -1
RECURSIVE ScanBraces(_, _, _, _)
ScanBraces(s, k, json_start, brace_count) ==
    LET b == FindEither(s, k, "{", "}") IN
    IF b = 0 THEN [json_start |-> json_start, json_end |-> 0]
    ELSE IF s[b] = "{" THEN
        ScanBraces(s, b + 1, IF json_start = 0 THEN b ELSE json_start, brace_count + 1)
    ELSE IF brace_count - 1 = 0 /\ json_start # 0
         THEN [json_start |-> json_start, json_end |-> b]
         ELSE ScanBraces(s, b + 1, json_start, brace_count - 1)

-----------------------------------------------------------------------------
(* _clean_json_aggressively: the seven substitutions, each a left-to-right   *)
(* scan replacing the non-overlapping matches as re.sub does                *)

\* s[k-1:], k being a 1-based position
Rest(s, k) == SubSeq(s, k, Len(s))

\* re.sub(r',(\s*[}\]])', r'\1', s): a match starts at a comma that white
\* space and then } or ] follow
CommaMatch(s, p) ==
    /\ s[p] = ","
    /\ SkipSpaces(s, p + 1) <= Len(s)
    /\ s[SkipSpaces(s, p + 1)] \in {"}", "]"}

RECURSIVE DropTrailingCommas(_, _, _)
DropTrailingCommas(s, k, acc) ==
    IF \E p \in k..Len(s) : CommaMatch(s, p)
    THEN LET p == CHOOSE p \in k..Len(s) :
                    CommaMatch(s, p) /\ \A q \in k..(p - 1) : ~CommaMatch(s, q)
             j == SkipSpaces(s, p + 1)
             out == acc \o SubSeq(s, k, p - 1) \o SubSeq(s, p + 1, j)
         IN  IF Len(out) >= 0 THEN DropTrailingCommas(s, j + 1, out) ELSE <<>>
    ELSE acc \o Rest(s, k)

\* re.sub(r'([{,]\s*)([a-zA-Z_][a-zA-Z0-9_]*)\s*:', r'\1"\2":', s): a match
\* starts at { or , that white space, an identifier, white space and : follow
BareKeyMatch(s, p) ==
    LET j == SkipSpaces(s, p + 1)
        q == SkipSpaces(s, SkipIdent(s, j))
    IN  /\ s[p] \in {"{", ","}
        /\ j <= Len(s) /\ IsIdentStart(s[j])
        /\ q <= Len(s) /\ s[q] = ":"

RECURSIVE QuoteBareKeys(_, _, _)
QuoteBareKeys(s, k, acc) ==
    IF \E p \in k..Len(s) : BareKeyMatch(s, p)
    THEN LET p == CHOOSE p \in k..Len(s) :
                    BareKeyMatch(s, p) /\ \A q \in k..(p - 1) : ~BareKeyMatch(s, q)
             j == SkipSpaces(s, p + 1)
             m == SkipIdent(s, j)
             q == SkipSpaces(s, m)
             out == acc \o SubSeq(s, k, j - 1) \o <<"\"">> \o SubSeq(s, j, m - 1)
                        \o <<"\"", ":">>
         IN  IF Len(out) >= 0 THEN QuoteBareKeys(s, q + 1, out) ELSE <<>>
    ELSE acc \o Rest(s, k)

\* re.sub(r"'([^']*)'", r'"\1"', s): a match runs from a single quote to the next
RECURSIVE SingleToDoubleQuotes(_, _, _)
SingleToDoubleQuotes(s, k, acc) ==
    LET p == FindChar(s, k, "'")
        j == IF p = 0 THEN 0 ELSE FindChar(s, p + 1, "'")
    IN  IF j # 0
        THEN LET out == acc \o SubSeq(s, k, p - 1) \o <<"\"">> \o SubSeq(s, p + 1, j - 1)
                            \o <<"\"">>
             IN  IF Len(out) >= 0 THEN SingleToDoubleQuotes(s, j + 1, out) ELSE <<>>
        ELSE acc \o Rest(s, k)

\* re.sub(r'//.*?$', '', s, flags=re.MULTILINE): a match runs from // to the
\* end of its line
RECURSIVE DropLineComments(_, _, _)
DropLineComments(s, k, acc) ==
    IF \E p \in k..Len(s) : MatchAt(s, p, <<"/", "/">>)
    THEN LET p == CHOOSE p \in k..Len(s) :
                    /\ MatchAt(s, p, <<"/", "/">>)
                    /\ \A q \in k..(p - 1) : ~MatchAt(s, q, <<"/", "/">>)
             eol == FindChar(s, p, "\n")
             out == acc \o SubSeq(s, k, p - 1)
         IN  IF eol = 0 THEN out
             ELSE IF Len(out) >= 0 THEN DropLineComments(s, eol, out) ELSE <<>>
    ELSE acc \o Rest(s, k)

\* re.sub(r':\s*<word>\b', ': <replacement>', s): a match starts at a colon
\* that white space and the word follow, the word ending at a word boundary
LiteralMatch(s, word, p) ==
    LET j == SkipSpaces(s, p + 1)
        after == j + Len(word)
    IN  /\ s[p] = ":"
        /\ MatchAt(s, j, word)
        /\ (after > Len(s) \/ ~IsIdentChar(s[after]))

RECURSIVE ReplaceLiteral(_, _, _, _, _)
ReplaceLiteral(s, word, replacement, k, acc) ==
    IF \E p \in k..Len(s) : LiteralMatch(s, word, p)
    THEN LET p == CHOOSE p \in k..Len(s) :
                    LiteralMatch(s, word, p) /\ \A q \in k..(p - 1) : ~LiteralMatch(s, word, q)
             after == SkipSpaces(s, p + 1) + Len(word)
             out == acc \o SubSeq(s, k, p - 1) \o <<":", " ">> \o replacement
         IN  IF Len(out) >= 0 THEN ReplaceLiteral(s, word, replacement, after, out) ELSE <<>>
    ELSE acc \o Rest(s, k)

\* _clean_json_aggressively
clean_json_aggressively(json_str) ==
    LET s1 == DropTrailingCommas(json_str, 1, <<>>)
        s2 == QuoteBareKeys(s1, 1, <<>>)
        s3 == SingleToDoubleQuotes(s2, 1, <<>>)
        s4 == DropLineComments(s3, 1, <<>>)
        s5 == ReplaceLiteral(s4, <<"T", "r", "u", "e">>, <<"t", "r", "u", "e">>, 1, <<>>)
        s6 == ReplaceLiteral(s5, <<"F", "a", "l", "s", "e">>, <<"f", "a", "l", "s", "e">>, 1, <<>>)
    IN  ReplaceLiteral(s6, <<"N", "o", "n", "e">>, <<"n", "u", "l", "l">>, 1, <<>>)

-----------------------------------------------------------------------------
(* json.loads, on the JSON this model writes: objects, arrays, strings       *)
(* without escapes, non-negative integers, true, false, null                *)

ParseError == [ok |-> FALSE, val |-> JNull, next |-> 0]
Parsed(val, next) == [ok |-> TRUE, val |-> val, next |-> next]

\* the digits s[k..m-1] as a number
RECURSIVE DigitsValue(_, _, _, _)
DigitsValue(s, k, m, acc) ==
    IF k >= m THEN acc
    ELSE DigitsValue(s, k + 1, m,
            acc * 10 + (CHOOSE d \in 0..9 : Digit(d) = s[k]))

\* first position >= k that holds no digit
SkipDigits(s, k) ==
    CHOOSE p \in k..(Len(s) + 1) :
        /\ p = Len(s) + 1 \/ s[p] \notin Digits
        /\ \A q \in k..(p - 1) : s[q] \in Digits

\* a string whose opening quote is at k: up to the next quote; a control
\* character inside it is an error (strict mode)
ParseString(s, k) ==
    LET close == FindChar(s, k + 1, "\"") IN
    IF close = 0 \/ \E j \in (k + 1)..(close - 1) : s[j] \in {"\n", "\t", "\r"}
    THEN ParseError
    ELSE Parsed(JString(SubSeq(s, k + 1, close - 1)), close + 1)

RECURSIVE ParseValue(_, _)
RECURSIVE ParseMembers(_, _, _)
RECURSIVE ParseItems(_, _, _)

\* the value that starts at position k
ParseValue(s, k) ==
    IF k > Len(s) THEN ParseError
    ELSE IF s[k] = "\"" THEN ParseString(s, k)
    ELSE IF s[k] = "{" THEN
        LET j == SkipSpaces(s, k + 1) IN
        IF j <= Len(s) /\ s[j] = "}" THEN Parsed(JObject(<<>>), j + 1)
        ELSE ParseMembers(s, j, <<>>)
    ELSE IF s[k] = "[" THEN
        LET j == SkipSpaces(s, k + 1) IN
        IF j <= Len(s) /\ s[j] = "]" THEN Parsed(JArray(<<>>), j + 1)
        ELSE ParseItems(s, j, <<>>)
    ELSE IF MatchAt(s, k, <<"n", "u", "l", "l">>) THEN Parsed(JNull, k + 4)
    ELSE IF MatchAt(s, k, <<"t", "r", "u", "e">>) THEN Parsed(JTrue, k + 4)
    ELSE IF MatchAt(s, k, <<"f", "a", "l", "s", "e">>) THEN Parsed(JFalse, k + 5)
    ELSE IF s[k] = "0" THEN Parsed(JNumber(0), k + 1)
    ELSE IF s[k] \in Digits THEN
        LET m == SkipDigits(s, k) IN Parsed(JNumber(DigitsValue(s, k, m, 0)), m)
    ELSE ParseError

\* the members of an object from the key whose quote is expected at k;
\* fields holds the members read so far (a repeated key keeps its last value)
ParseMembers(s, k, fields) ==
    IF k > Len(s) \/ s[k] # "\"" THEN ParseError
    ELSE LET key == ParseString(s, k) IN
         IF ~key.ok THEN ParseError
         ELSE LET colon == SkipSpaces(s, key.next) IN
              IF colon > Len(s) \/ s[colon] # ":" THEN ParseError
              ELSE LET value == ParseValue(s, SkipSpaces(s, colon + 1)) IN
                   IF ~value.ok THEN ParseError
                   ELSE LET more == (key.val.chars :> value.val) @@ fields
                            sep == SkipSpaces(s, value.next)
                        IN  IF sep > Len(s) THEN ParseError
                            ELSE IF s[sep] = "}" THEN Parsed(JObject(more), sep + 1)
                            ELSE IF s[sep] = "," THEN
                                ParseMembers(s, SkipSpaces(s, sep + 1), more)
                            ELSE ParseError

\* the items of an array from the item that starts at k
ParseItems(s, k, items) ==
    LET value == ParseValue(s, k) IN
    IF ~value.ok THEN ParseError
    ELSE LET more == Append(items, value.val)
             sep == SkipSpaces(s, value.next)
         IN  IF sep > Len(s) THEN ParseError
             ELSE IF s[sep] = "]" THEN Parsed(JArray(more), sep + 1)
             ELSE IF s[sep] = "," THEN ParseItems(s, SkipSpaces(s, sep + 1), more)
             ELSE ParseError

\* json.loads(s): ok is FALSE where json.JSONDecodeError is raised
json_loads(s) ==
    LET value == ParseValue(s, SkipSpaces(s, 1)) IN
    IF value.ok /\ SkipSpaces(s, value.next) > Len(s) THEN value ELSE ParseError

-----------------------------------------------------------------------------
(* The Response Normalizer *)

\* re.search(rf'"{key}"\s*:\s*\[', text): a match starts at the quoted key
\* that white space, a colon, white space and [ follow
KeyArrayMatch(text, key, p) ==
    LET quoted == <<"\"">> \o key \o <<"\"">>
        colon == SkipSpaces(text, p + Len(quoted))
        bracket == SkipSpaces(text, colon + 1)
    IN  /\ MatchAt(text, p, quoted)
        /\ colon <= Len(text) /\ text[colon] = ":"
        /\ bracket <= Len(text) /\ text[bracket] = "["

\* match.end() - 1 of the first match: the position of its [, 0 without a match
FindKeyArray(text, key) ==
    IF \E p \in 1..Len(text) : KeyArrayMatch(text, key, p)
    THEN LET p == CHOOSE p \in 1..Len(text) :
                    KeyArrayMatch(text, key, p) /\ \A q \in 1..(p - 1) : ~KeyArrayMatch(text, key, q)
             colon == SkipSpaces(text, p + Len(key) + 2)
         IN  SkipSpaces(text, colon + 1)
    ELSE 0

\* lines 1029-1038: the position of the bracket that closes the one at
\* start_pos, 0 when there is none; the scan steps from bracket to bracket
RECURSIVE MatchingBracket(_, _, _)
MatchingBracket(text, k, bracket_count) ==
    LET b == FindEither(text, k, "[", "]") IN
    IF b = 0 THEN 0
    ELSE IF text[b] = "[" THEN MatchingBracket(text, b + 1, bracket_count + 1)
    ELSE IF bracket_count - 1 = 0 THEN b
         ELSE MatchingBracket(text, b + 1, bracket_count - 1)

RecoveryKeys == <<K_extracted_values, <<"p", "o", "t", "e", "n", "t", "i", "a", "l", "_", "s", "o", "u", "r", "c", "e", "s">>, K_batch_analysis>>

\* the for loop of lines 1021-1047 from the n-th key on
RECURSIVE RecoverFrom(_, _)
RecoverFrom(response_text, n) ==
    IF n > Len(RecoveryKeys) THEN [found |-> FALSE, result |-> JNull]
    ELSE LET key == RecoveryKeys[n]
             start_pos == FindKeyArray(response_text, key)
             end_pos == IF start_pos = 0 THEN 0 ELSE MatchingBracket(response_text, start_pos, 0)
             extracted_array == IF end_pos = 0 THEN ParseError
                                ELSE json_loads(SubSeq(response_text, start_pos, end_pos))
         IN  IF extracted_array.ok
             THEN [found |-> TRUE, result |-> JObject(key :> extracted_array.val)]
             ELSE RecoverFrom(response_text, n + 1)

\* _json_recovery_strategies: path tells which return statement was taken
\* (1045 or 1053)
json_recovery_strategies(response_text, context) ==
    LET recovered ==
            IF \E n \in 1..Len(RecoveryKeys) : Contains(response_text, RecoveryKeys[n])
            THEN RecoverFrom(response_text, 1)
            ELSE [found |-> FALSE, result |-> JNull]
    IN  IF recovered.found
        THEN [path |-> "recovered", recovery_attempted |-> TRUE, result |-> recovered.result]
        ELSE [path |-> "fallback", recovery_attempted |-> TRUE,
              result |-> get_fallback_structure(context)]

\* response.text that is no string (None): response_text.strip() raises
NoText == <<"None">>

\* _parse_gemini_json_response_robust: the returned dictionary, with the
\* return statement taken: "parsed" (981), through the recovery (986), or
\* "fallback" without recovery (990)
parse_gemini_json_response_robust(response_text, context) ==
    IF response_text = NoText
    THEN \* AttributeError, caught by except Exception
         [path |-> "fallback", recovery_attempted |-> FALSE,
          result |-> get_fallback_structure(context)]
    ELSE
        LET cleaned_text == StripFences(response_text)
            span == ScanBraces(cleaned_text, 1, 0, 0)
        IN  IF span.json_start = 0 \/ span.json_end = 0
            THEN \* ValueError, caught by except Exception
                 [path |-> "fallback", recovery_attempted |-> FALSE,
                  result |-> get_fallback_structure(context)]
            ELSE
                LET json_str == clean_json_aggressively(
                                    SubSeq(cleaned_text, span.json_start, span.json_end))
                    result == json_loads(json_str)
                IN  IF result.ok
                    THEN [path |-> "parsed", recovery_attempted |-> FALSE,
                          result |-> result.val]
                    ELSE json_recovery_strategies(response_text, context)

-----------------------------------------------------------------------------
(* The Audit Engine: one batch *)

\* What self.model.generate_content(prompt) followed by the Response Normalizer
\* hands to the batch: the call raises, the text parses to a dictionary, or the
\* text is beyond repair and the normalizer falls back.
RaiseReply(msg) == [kind |-> "raise", msg |-> msg, result |-> JNull]
ParsedReply(result) == [kind |-> "parsed", msg |-> <<>>, result |-> result]
UnparseableReply == [kind |-> "unparseable", msg |-> <<>>, result |-> JNull]

\* f"direct_audit_batch_{batch_num}"
DirectAuditContext(batch_num) == DirectAuditContextPrefix \o Str(batch_num)

\* result of _parse_gemini_json_response_robust(response.text, context)
NormalizedReply(reply, context) ==
    IF reply.kind = "unparseable" THEN get_fallback_structure(context) ELSE reply.result

\* the dictionary appended for a value without a usable record (lines 760-771 and
\* 781-793); reasoning and error are the two places where the branches differ
SynthesizedResult(pdf_value, pos, batch_num, reasoning, error) ==
    JObject((K_pdf_value_id :> Get(pdf_value, K_id, JString(<<"p", "d", "f", "_", "v", "a", "l", "u", "e", "_">> \o Str(pos))))
         @@ (K_pdf_value :> Get(pdf_value, K_value, JString(S_unknown)))
         @@ (K_pdf_context :>
                Get(Get(pdf_value, K_business_context, EmptyDict),
                    K_semantic_meaning, JString(S_unknown)))
         @@ (K_validation_status :> JString(S_unverifiable))
         @@ (K_excel_match :> JNull)
         @@ (K_confidence :> JNumber(0))
         @@ (K_audit_reasoning :> JString(reasoning))
         @@ (K_original_pdf_data :> pdf_value)
         @@ (K_batch_number :> JNumber(batch_num))
         @@ error)

\* mutant: the except branch returns nothing for the failed batch
FallbackResults_Dropped(pdf_batch, batch_num, msg) == <<>>

\* the except branch, lines 776-794: str(e)[:100] in the reasoning, str(e) in error
FallbackResults(pdf_batch, batch_num, msg) ==
    [k \in 1..Len(pdf_batch) |->
        SynthesizedResult(pdf_batch[k], k - 1, batch_num,
                          AuditErrorPrefix \o Slice(msg, 0, ErrorMessageCap),
                          K_error :> JString(msg))]

\* mutant: the loop runs over the records of the reply instead of the values
CombineFrom_PerRecord(pdf_batch, batch_results, batch_num, k, acc) ==
    IF batch_results.type # "array" THEN
        [raised |-> TRUE, msg |-> TypeErrorMessage, results |-> <<>>]
    ELSE IF \E j \in 1..Len(batch_results.items) : batch_results.items[j].type # "object" THEN
        [raised |-> TRUE, msg |-> AttributeErrorMessage, results |-> <<>>]
    ELSE
        [raised |-> FALSE, msg |-> <<>>,
         results |-> [j \in 1..Len(batch_results.items) |->
            Update(batch_results.items[j],
                JObject((K_original_pdf_data :> pdf_batch[Min(j, Len(pdf_batch))])
                     @@ (K_batch_number :> JNumber(batch_num))))]]

\* the loop of lines 748-771 from index k (0-based) on, final_results being acc;
\* an exception leaves the loop with its message
RECURSIVE CombineFrom(_, _, _, _, _)
CombineFrom(pdf_batch, batch_results, batch_num, k, acc) ==
    IF k >= Len(pdf_batch) THEN [raised |-> FALSE, msg |-> <<>>, results |-> acc]
    ELSE IF batch_results.type # "array" THEN
        \* i < len(batch_results) on a value without a length
        [raised |-> TRUE, msg |-> TypeErrorMessage, results |-> <<>>]
    ELSE IF k < Len(batch_results.items) THEN
        LET audit_result == batch_results.items[k + 1] IN
        IF audit_result.type # "object" THEN
            \* audit_result.update on a value that is no dictionary
            [raised |-> TRUE, msg |-> AttributeErrorMessage, results |-> <<>>]
        ELSE
            CombineFrom(pdf_batch, batch_results, batch_num, k + 1,
                Append(acc, Update(audit_result,
                    JObject((K_original_pdf_data :> pdf_batch[k + 1])
                         @@ (K_batch_number :> JNumber(batch_num))))))
    ELSE
        CombineFrom(pdf_batch, batch_results, batch_num, k + 1,
            Append(acc, SynthesizedResult(pdf_batch[k + 1], k, batch_num,
                                          IncompleteReasoning, <<>>)))

\* _process_direct_audit_batch: [results, error], error being the message of the
\* exception the except branch caught, <<>> when it caught none
process_direct_audit_batch(pdf_batch, batch_num, reply) ==
    IF reply.kind = "raise" THEN
        [results |-> FallbackResults(pdf_batch, batch_num, reply.msg), error |-> reply.msg]
    ELSE
        LET result == NormalizedReply(reply, DirectAuditContext(batch_num))
            batch_results == Get(result, K_batch_results, JArray(<<>>))
            combined == CombineFrom(pdf_batch, batch_results, batch_num, 0, <<>>)
        IN  IF combined.raised
            THEN [results |-> FallbackResults(pdf_batch, batch_num, combined.msg),
                  error |-> combined.msg]
            ELSE [results |-> combined.results, error |-> <<>>]

-----------------------------------------------------------------------------
(* The Audit Engine: the whole audit *)

\* len([r for r in results if r.get("validation_status") == status])
CountStatus(results, status) ==
    Cardinality({k \in 1..Len(results) :
                    Get(results[k], K_validation_status, JNull) = JString(status)})

\* A float that is a quotient of two integers, kept exact: num / den
Ratio(num, den) == [num |-> num, den |-> den]
AtLeast(r, n) == r.num >= n * r.den
Above(r, n) == r.num > n * r.den

\* mutant: accuracy counts the matched results only
Summarize_MatchedOnly(results) ==
    LET total == Len(results)
        matched == CountStatus(results, S_matched)
    IN  [total_values_checked |-> total,
         matched |-> matched,
         mismatched |-> CountStatus(results, S_mismatched),
         formatting_differences |-> CountStatus(results, S_formatting_difference),
         unverifiable |-> CountStatus(results, S_unverifiable),
         pdf_only |-> CountStatus(results, S_pdf_only),
         overall_accuracy |->
            IF total > 0 THEN Ratio(matched * 100, total) ELSE Ratio(0, 1)]

\* lines 663-675
Summarize(results) ==
    LET total == Len(results)
        matched == CountStatus(results, S_matched)
        formatting_differences == CountStatus(results, S_formatting_difference)
    IN  [total_values_checked |-> total,
         matched |-> matched,
         mismatched |-> CountStatus(results, S_mismatched),
         formatting_differences |-> formatting_differences,
         unverifiable |-> CountStatus(results, S_unverifiable),
         pdf_only |-> CountStatus(results, S_pdf_only),
         overall_accuracy |->
            IF total > 0 THEN Ratio((matched + formatting_differences) * 100, total)
            ELSE Ratio(0, 1)]

\* mutant: the low tier starts at 80
RiskAssessment_Floor80(accuracy) ==
    IF AtLeast(accuracy, 80) THEN "low"
    ELSE IF AtLeast(accuracy, MediumRiskFloor) THEN "medium"
    ELSE "high"

\* line 684
RiskAssessment(accuracy) ==
    IF AtLeast(accuracy, LowRiskFloor) THEN "low"
    ELSE IF AtLeast(accuracy, MediumRiskFloor) THEN "medium"
    ELSE "high"

\* _generate_direct_audit_recommendations: which rules fire, in order
generate_direct_audit_recommendations(summary) ==
    IF summary.total_values_checked = 0 THEN <<"none_audited">>
    ELSE
        <<IF AtLeast(summary.overall_accuracy, 90) THEN "excellent"
          ELSE IF AtLeast(summary.overall_accuracy, 75) THEN "good"
          ELSE "concerns">>
        \o (IF summary.matched > 0 THEN <<"matched">> ELSE <<>>)
        \o (IF summary.formatting_differences > 0 THEN <<"formatting">> ELSE <<>>)
        \o (IF summary.mismatched > 0 THEN <<"mismatched">> ELSE <<>>)
        \o (IF summary.pdf_only > 0
            THEN IF Above(Ratio(summary.pdf_only * 100, summary.total_values_checked), 20)
                 THEN <<"pdf_only_gap">> ELSE <<"pdf_only_info">>
            ELSE <<>>)
        \o <<"coverage">>

\* the early return of lines 644-650
EarlyReport ==
    [summary |-> [total_values_checked |-> 0, overall_accuracy |-> Ratio(0, 1)],
     detailed_results |-> <<>>,
     recommendations |-> <<"no_values">>,
     risk_assessment |-> "high"]

\* the return of lines 680-691
FinalReport(results) ==
    LET summary == Summarize(results) IN
    [summary |-> summary,
     detailed_results |-> results,
     recommendations |-> generate_direct_audit_recommendations(summary),
     risk_assessment |-> RiskAssessment(summary.overall_accuracy)]

-----------------------------------------------------------------------------
(* Inputs: the arguments of the audit and what the LLM answers *)

ValueId(k) == JString(<<"v", Digit(k)>>)

\* an ExtractedValue as the page prompt asks for it (lines 107-121)
PdfValue(k) ==
    JObject((K_id :> ValueId(k))
         @@ (K_value :> JString(<<"$", Digit(k)>>))
         @@ (K_business_context :> JObject(K_semantic_meaning :> JString(<<"k", "p", "i">>))))

ExcelValue(k) == JObject(K_value :> JString(<<"$", Digit(k)>>))

PdfInputs == {[k \in 1..n |-> PdfValue(k)] : n \in 0..MaxPdf}
ExcelInputs == {[k \in 1..n |-> ExcelValue(k)] : n \in 0..MaxExcel}

\* validation_status values the LLM writes; the last one is outside the enum
EnumStatuses == {S_matched, S_mismatched, S_formatting_difference}
LLMStatuses == EnumStatuses \cup {<<"p", "a", "r", "t", "i", "a", "l">>}

LongMessage == [k \in 1..(ErrorMessageCap + 1) |-> "x"]
ExceptionMessages == {<<"4", "2", "9", " ", "q", "u", "o", "t", "a">>, LongMessage}

\* a record of batch_results as the audit prompt asks for it (lines 713-726)
LLMRecord(id, status) ==
    JObject((K_pdf_value_id :> id)
         @@ (K_validation_status :> JString(status))
         @@ (K_audit_reasoning :> JString(<<"s", "a", "m", "e">>)))

BatchReply(items) == ParsedReply(JObject(K_batch_results :> JArray(items)))

IdOf(pdf_batch, k) == IF k <= Len(pdf_batch) THEN pdf_batch[k].fields[K_id] ELSE ValueId(0)

\* the replies the LLM is allowed for a batch of n values
Replies(pdf_batch) ==
    LET n == Len(pdf_batch) IN
    \* the call raises
    {RaiseReply(m) : m \in ExceptionMessages}
    \* text beyond repair; a dictionary without batch_results; batch_results: null
    \cup {UnparseableReply, ParsedReply(EmptyDict),
          ParsedReply(JObject(K_batch_results :> JNull))}
    \* 0..n records, record k about value k, any statuses
    \cup UNION {{BatchReply([k \in 1..len |-> LLMRecord(IdOf(pdf_batch, k), st[k])]) :
                    st \in [1..len -> EnumStatuses]} : len \in 0..n}
    \* n or n + 1 records with one status, possibly outside the enum
    \cup {BatchReply([k \in 1..len |-> LLMRecord(IdOf(pdf_batch, k), s)]) :
            s \in LLMStatuses, len \in {n, n + 1}}
    \* a verdict for one value of the batch only
    \cup {BatchReply(<<LLMRecord(IdOf(pdf_batch, k), S_matched)>>) : k \in 1..n}
    \* all values, in reverse order
    \cup {BatchReply([k \in 1..n |-> LLMRecord(IdOf(pdf_batch, n + 1 - k), S_matched)])}
    \* one entry that is no dictionary, among n or n + 1 entries
    \cup {BatchReply([k \in 1..Max(n, j) |->
                        IF k = j THEN JString(<<"?">>)
                        ELSE LLMRecord(IdOf(pdf_batch, k), S_matched)]) : j \in 1..(n + 1)}

\* history: what kind of reply a batch got
ReplySummary(reply) ==
    [kind |-> reply.kind,
     records |->
        IF reply.kind = "parsed"
           /\ Get(reply.result, K_batch_results, JNull).type = "array"
        THEN Len(Get(reply.result, K_batch_results, JNull).items)
        ELSE 0,
     \* the entries of batch_results, when the reply holds a list of them
     items |->
        IF reply.kind = "parsed"
           /\ Get(reply.result, K_batch_results, JNull).type = "array"
        THEN Get(reply.result, K_batch_results, JNull).items
        ELSE <<>>]

-----------------------------------------------------------------------------
(* The Response Normalizer: callers and the replies they hand over *)

\* the context strings of lines 132, 422, 742 and 877
PageContextPrefix == <<"p", "a", "g", "e", "_">>
ExcelBatchContextPrefix == <<"e", "x", "c", "e", "l", "_", "b", "a", "t", "c", "h", "_">>
PageContext(num) == PageContextPrefix \o Str(num)
ExcelBatchContext(sheet_name, batch_index) ==
    ExcelBatchContextPrefix \o sheet_name \o <<"_">> \o Str(batch_index)
SynthesisContext == <<"d", "o", "c", "u", "m", "e", "n", "t", "_", "s", "y", "n", "t", "h", "e", "s", "i", "s">>

\* worksheet names of a workbook
SheetNames == {<<"D", "a", "t", "a">>,
               <<"H", "o", "m", "e", "p", "a", "g", "e", "_", "K", "P", "I", "s">>}

\* every (caller, context) the pipeline hands to the normalizer
Contexts ==
    {[kind |-> "page", context |-> PageContext(n)] : n \in 1..MaxContextNum}
    \cup {[kind |-> "excel_batch", context |-> ExcelBatchContext(s, n - 1)] :
            s \in SheetNames, n \in 1..MaxContextNum}
    \cup {[kind |-> "audit", context |-> DirectAuditContext(n)] : n \in 1..MaxContextNum}
    \cup {[kind |-> "synthesis", context |-> SynthesisContext]}

\* the key each caller reads from the returned dictionary (lines 137, 424, 744)
ExpectedKey ==
    ("page" :> K_extracted_values) @@ ("excel_batch" :> K_batch_analysis)
    @@ ("audit" :> K_batch_results)

\* payloads: valid JSON texts of the schemas the prompts ask for
Payloads == <<
    \* {"extracted_values": [{"id": "v1", "value": "5"}]}
    <<"{", "\"", "e", "x", "t", "r", "a", "c", "t", "e", "d", "_", "v", "a", "l", "u", "e", "s", "\"", ":", " ", "[", "{", "\"", "i", "d", "\"", ":", " ", "\"", "v", "1", "\"", ",", " ", "\"", "v", "a", "l", "u", "e", "\"", ":", " ", "\"", "5", "\"", "}", "]", "}">>,
    \* {"batch_results": [{"pdf_value_id": "v1", "validation_status": "matched"}]}
    <<"{", "\"", "b", "a", "t", "c", "h", "_", "r", "e", "s", "u", "l", "t", "s", "\"", ":", " ", "[", "{", "\"", "p", "d", "f", "_", "v", "a", "l", "u", "e", "_", "i", "d", "\"", ":", " ", "\"", "v", "1", "\"", ",", " ", "\"", "v", "a", "l", "i", "d", "a", "t", "i", "o", "n", "_", "s", "t", "a", "t", "u", "s", "\"", ":", " ", "\"", "m", "a", "t", "c", "h", "e", "d", "\"", "}", "]", "}">>,
    \* {"page_number": 1, "extracted_values": [], "ok": true, "note": null}
    <<"{", "\"", "p", "a", "g", "e", "_", "n", "u", "m", "b", "e", "r", "\"", ":", " ", "1", ",", " ", "\"", "e", "x", "t", "r", "a", "c", "t", "e", "d", "_", "v", "a", "l", "u", "e", "s", "\"", ":", " ", "[", "]", ",", " ", "\"", "o", "k", "\"", ":", " ", "t", "r", "u", "e", ",", " ", "\"", "n", "o", "t", "e", "\"", ":", " ", "n", "u", "l", "l", "}">>,
    \* {"batch_analysis": [{"cell_reference": "B5", "value": 12}]}
    <<"{", "\"", "b", "a", "t", "c", "h", "_", "a", "n", "a", "l", "y", "s", "i", "s", "\"", ":", " ", "[", "{", "\"", "c", "e", "l", "l", "_", "r", "e", "f", "e", "r", "e", "n", "c", "e", "\"", ":", " ", "\"", "B", "5", "\"", ",", " ", "\"", "v", "a", "l", "u", "e", "\"", ":", " ", "1", "2", "}", "]", "}">>,
    \* {"extracted_values": [{"value": "'24 vs '23"}]}
    <<"{", "\"", "e", "x", "t", "r", "a", "c", "t", "e", "d", "_", "v", "a", "l", "u", "e", "s", "\"", ":", " ", "[", "{", "\"", "v", "a", "l", "u", "e", "\"", ":", " ", "\"", "'", "2", "4", " ", "v", "s", " ", "'", "2", "3", "\"", "}", "]", "}">>,
    \* {"batch_analysis": [{"reasoning": "see http://x"}]}
    <<"{", "\"", "b", "a", "t", "c", "h", "_", "a", "n", "a", "l", "y", "s", "i", "s", "\"", ":", " ", "[", "{", "\"", "r", "e", "a", "s", "o", "n", "i", "n", "g", "\"", ":", " ", "\"", "s", "e", "e", " ", "h", "t", "t", "p", ":", "/", "/", "x", "\"", "}", "]", "}">>,
    \* {"batch_results": [{"audit_reasoning": "ok, note: same"}]}
    <<"{", "\"", "b", "a", "t", "c", "h", "_", "r", "e", "s", "u", "l", "t", "s", "\"", ":", " ", "[", "{", "\"", "a", "u", "d", "i", "t", "_", "r", "e", "a", "s", "o", "n", "i", "n", "g", "\"", ":", " ", "\"", "o", "k", ",", " ", "n", "o", "t", "e", ":", " ", "s", "a", "m", "e", "\"", "}", "]", "}">>,
    \* {"extracted_values": [{"value": "}"}]}
    <<"{", "\"", "e", "x", "t", "r", "a", "c", "t", "e", "d", "_", "v", "a", "l", "u", "e", "s", "\"", ":", " ", "[", "{", "\"", "v", "a", "l", "u", "e", "\"", ":", " ", "\"", "}", "\"", "}", "]", "}">>,
    \* {"batch_results": [{"audit_reasoning": "flag: True"}]}
    <<"{", "\"", "b", "a", "t", "c", "h", "_", "r", "e", "s", "u", "l", "t", "s", "\"", ":", " ", "[", "{", "\"", "a", "u", "d", "i", "t", "_", "r", "e", "a", "s", "o", "n", "i", "n", "g", "\"", ":", " ", "\"", "f", "l", "a", "g", ":", " ", "T", "r", "u", "e", "\"", "}", "]", "}">>,
    \* {"extracted_values": [{"value": "1, 2,}"}]}
    <<"{", "\"", "e", "x", "t", "r", "a", "c", "t", "e", "d", "_", "v", "a", "l", "u", "e", "s", "\"", ":", " ", "[", "{", "\"", "v", "a", "l", "u", "e", "\"", ":", " ", "\"", "1", ",", " ", "2", ",", "}", "\"", "}", "]", "}">>
>>

\* renderings of a payload that leave its text alone
InJsonFence(p) == FenceJson \o <<"\n">> \o p \o <<"\n">> \o Fence
InFence(p) == Fence \o <<"\n">> \o p \o <<"\n">> \o Fence
Padded(p) == <<" ", " ">> \o p \o <<"\n">>
InProse(p) == <<"H", "e", "r", "e", " ", "i", "s", " ", "t", "h", "e", " ", "J", "S", "O", "N", ":", "\n">> \o p \o <<"\n", "D", "o", "n", "e", ".">>

Rendering(text, n) == [text |-> text, payload |-> Payloads[n]]

\* a payload as it is, fenced, padded and inside prose
WrappedRenderings ==
    {Rendering(Payloads[n], n) : n \in 1..Len(Payloads)}
    \cup UNION {{Rendering(InJsonFence(Payloads[n]), n), Rendering(InFence(Payloads[n]), n),
                 Rendering(Padded(Payloads[n]), n), Rendering(InProse(Payloads[n]), n)} :
                    n \in 1..4}

\* pseudo-JSON renderings: trailing commas, single quotes, bare keys,
\* True/False/None, and all of them inside a fence
PseudoJsonRenderings == {
    \* {"extracted_values": [{"id": "v1", "value": "5",}],}
    Rendering(<<"{", "\"", "e", "x", "t", "r", "a", "c", "t", "e", "d", "_", "v", "a", "l", "u", "e", "s", "\"", ":", " ", "[", "{", "\"", "i", "d", "\"", ":", " ", "\"", "v", "1", "\"", ",", " ", "\"", "v", "a", "l", "u", "e", "\"", ":", " ", "\"", "5", "\"", ",", "}", "]", ",", "}">>, 1),
    \* {'extracted_values': [{'id': 'v1', 'value': '5'}]}
    Rendering(<<"{", "'", "e", "x", "t", "r", "a", "c", "t", "e", "d", "_", "v", "a", "l", "u", "e", "s", "'", ":", " ", "[", "{", "'", "i", "d", "'", ":", " ", "'", "v", "1", "'", ",", " ", "'", "v", "a", "l", "u", "e", "'", ":", " ", "'", "5", "'", "}", "]", "}">>, 1),
    \* {extracted_values: [{id: "v1", value: "5"}]}
    Rendering(<<"{", "e", "x", "t", "r", "a", "c", "t", "e", "d", "_", "v", "a", "l", "u", "e", "s", ":", " ", "[", "{", "i", "d", ":", " ", "\"", "v", "1", "\"", ",", " ", "v", "a", "l", "u", "e", ":", " ", "\"", "5", "\"", "}", "]", "}">>, 1),
    \* ```json\n{extracted_values: [{id: 'v1', value: '5',}]}\n```
    Rendering(<<Backtick, Backtick, Backtick, "j", "s", "o", "n", "\n", "{", "e", "x", "t", "r", "a", "c", "t", "e", "d", "_", "v", "a", "l", "u", "e", "s", ":", " ", "[", "{", "i", "d", ":", " ", "'", "v", "1", "'", ",", " ", "v", "a", "l", "u", "e", ":", " ", "'", "5", "'", ",", "}", "]", "}", "\n", Backtick, Backtick, Backtick>>, 1),
    \* {"batch_results": [{"pdf_value_id": "v1", "validation_status": "matched",}],}
    Rendering(<<"{", "\"", "b", "a", "t", "c", "h", "_", "r", "e", "s", "u", "l", "t", "s", "\"", ":", " ", "[", "{", "\"", "p", "d", "f", "_", "v", "a", "l", "u", "e", "_", "i", "d", "\"", ":", " ", "\"", "v", "1", "\"", ",", " ", "\"", "v", "a", "l", "i", "d", "a", "t", "i", "o", "n", "_", "s", "t", "a", "t", "u", "s", "\"", ":", " ", "\"", "m", "a", "t", "c", "h", "e", "d", "\"", ",", "}", "]", ",", "}">>, 2),
    \* {'batch_results': [{'pdf_value_id': 'v1', 'validation_status': 'matched'}]}
    Rendering(<<"{", "'", "b", "a", "t", "c", "h", "_", "r", "e", "s", "u", "l", "t", "s", "'", ":", " ", "[", "{", "'", "p", "d", "f", "_", "v", "a", "l", "u", "e", "_", "i", "d", "'", ":", " ", "'", "v", "1", "'", ",", " ", "'", "v", "a", "l", "i", "d", "a", "t", "i", "o", "n", "_", "s", "t", "a", "t", "u", "s", "'", ":", " ", "'", "m", "a", "t", "c", "h", "e", "d", "'", "}", "]", "}">>, 2),
    \* {batch_results: [{pdf_value_id: "v1", validation_status: "matched"}]}
    Rendering(<<"{", "b", "a", "t", "c", "h", "_", "r", "e", "s", "u", "l", "t", "s", ":", " ", "[", "{", "p", "d", "f", "_", "v", "a", "l", "u", "e", "_", "i", "d", ":", " ", "\"", "v", "1", "\"", ",", " ", "v", "a", "l", "i", "d", "a", "t", "i", "o", "n", "_", "s", "t", "a", "t", "u", "s", ":", " ", "\"", "m", "a", "t", "c", "h", "e", "d", "\"", "}", "]", "}">>, 2),
    \* ```json\n{batch_results: [{pdf_value_id: 'v1', validation_status: 'matched',}]}\n```
    Rendering(<<Backtick, Backtick, Backtick, "j", "s", "o", "n", "\n", "{", "b", "a", "t", "c", "h", "_", "r", "e", "s", "u", "l", "t", "s", ":", " ", "[", "{", "p", "d", "f", "_", "v", "a", "l", "u", "e", "_", "i", "d", ":", " ", "'", "v", "1", "'", ",", " ", "v", "a", "l", "i", "d", "a", "t", "i", "o", "n", "_", "s", "t", "a", "t", "u", "s", ":", " ", "'", "m", "a", "t", "c", "h", "e", "d", "'", ",", "}", "]", "}", "\n", Backtick, Backtick, Backtick>>, 2),
    \* {'page_number': 1, 'extracted_values': [], 'ok': true, 'note': null}
    Rendering(<<"{", "'", "p", "a", "g", "e", "_", "n", "u", "m", "b", "e", "r", "'", ":", " ", "1", ",", " ", "'", "e", "x", "t", "r", "a", "c", "t", "e", "d", "_", "v", "a", "l", "u", "e", "s", "'", ":", " ", "[", "]", ",", " ", "'", "o", "k", "'", ":", " ", "t", "r", "u", "e", ",", " ", "'", "n", "o", "t", "e", "'", ":", " ", "n", "u", "l", "l", "}">>, 3),
    \* {page_number: 1, extracted_values: [], ok: true, note: null}
    Rendering(<<"{", "p", "a", "g", "e", "_", "n", "u", "m", "b", "e", "r", ":", " ", "1", ",", " ", "e", "x", "t", "r", "a", "c", "t", "e", "d", "_", "v", "a", "l", "u", "e", "s", ":", " ", "[", "]", ",", " ", "o", "k", ":", " ", "t", "r", "u", "e", ",", " ", "n", "o", "t", "e", ":", " ", "n", "u", "l", "l", "}">>, 3),
    \* {"page_number": 1, "extracted_values": [], "ok": True, "note": None}
    Rendering(<<"{", "\"", "p", "a", "g", "e", "_", "n", "u", "m", "b", "e", "r", "\"", ":", " ", "1", ",", " ", "\"", "e", "x", "t", "r", "a", "c", "t", "e", "d", "_", "v", "a", "l", "u", "e", "s", "\"", ":", " ", "[", "]", ",", " ", "\"", "o", "k", "\"", ":", " ", "T", "r", "u", "e", ",", " ", "\"", "n", "o", "t", "e", "\"", ":", " ", "N", "o", "n", "e", "}">>, 3),
    \* ```json\n{page_number: 1, extracted_values: [], ok: True, note: None}\n```
    Rendering(<<Backtick, Backtick, Backtick, "j", "s", "o", "n", "\n", "{", "p", "a", "g", "e", "_", "n", "u", "m", "b", "e", "r", ":", " ", "1", ",", " ", "e", "x", "t", "r", "a", "c", "t", "e", "d", "_", "v", "a", "l", "u", "e", "s", ":", " ", "[", "]", ",", " ", "o", "k", ":", " ", "T", "r", "u", "e", ",", " ", "n", "o", "t", "e", ":", " ", "N", "o", "n", "e", "}", "\n", Backtick, Backtick, Backtick>>, 3),
    \* {"batch_analysis": [{"cell_reference": "B5", "value": 12,}],}
    Rendering(<<"{", "\"", "b", "a", "t", "c", "h", "_", "a", "n", "a", "l", "y", "s", "i", "s", "\"", ":", " ", "[", "{", "\"", "c", "e", "l", "l", "_", "r", "e", "f", "e", "r", "e", "n", "c", "e", "\"", ":", " ", "\"", "B", "5", "\"", ",", " ", "\"", "v", "a", "l", "u", "e", "\"", ":", " ", "1", "2", ",", "}", "]", ",", "}">>, 4),
    \* {'batch_analysis': [{'cell_reference': 'B5', 'value': 12}]}
    Rendering(<<"{", "'", "b", "a", "t", "c", "h", "_", "a", "n", "a", "l", "y", "s", "i", "s", "'", ":", " ", "[", "{", "'", "c", "e", "l", "l", "_", "r", "e", "f", "e", "r", "e", "n", "c", "e", "'", ":", " ", "'", "B", "5", "'", ",", " ", "'", "v", "a", "l", "u", "e", "'", ":", " ", "1", "2", "}", "]", "}">>, 4),
    \* {batch_analysis: [{cell_reference: "B5", value: 12}]}
    Rendering(<<"{", "b", "a", "t", "c", "h", "_", "a", "n", "a", "l", "y", "s", "i", "s", ":", " ", "[", "{", "c", "e", "l", "l", "_", "r", "e", "f", "e", "r", "e", "n", "c", "e", ":", " ", "\"", "B", "5", "\"", ",", " ", "v", "a", "l", "u", "e", ":", " ", "1", "2", "}", "]", "}">>, 4),
    \* ```json\n{batch_analysis: [{cell_reference: 'B5', value: 12,}]}\n```
    Rendering(<<Backtick, Backtick, Backtick, "j", "s", "o", "n", "\n", "{", "b", "a", "t", "c", "h", "_", "a", "n", "a", "l", "y", "s", "i", "s", ":", " ", "[", "{", "c", "e", "l", "l", "_", "r", "e", "f", "e", "r", "e", "n", "c", "e", ":", " ", "'", "B", "5", "'", ",", " ", "v", "a", "l", "u", "e", ":", " ", "1", "2", ",", "}", "]", "}", "\n", Backtick, Backtick, Backtick>>, 4)
}

\* replies that render no payload: empty, prose, truncated, unbalanced, damaged
MalformedTexts == {
    \* 
    <<>>,
    \* I cannot comply.
    <<"I", " ", "c", "a", "n", "n", "o", "t", " ", "c", "o", "m", "p", "l", "y", ".">>,
    \* {
    <<"{">>,
    \* }
    <<"}">>,
    \* } {"a": 1}
    <<"}", " ", "{", "\"", "a", "\"", ":", " ", "1", "}">>,
    \* {"extracted_values": [{"id": "v1"}], "page
    <<"{", "\"", "e", "x", "t", "r", "a", "c", "t", "e", "d", "_", "v", "a", "l", "u", "e", "s", "\"", ":", " ", "[", "{", "\"", "i", "d", "\"", ":", " ", "\"", "v", "1", "\"", "}", "]", ",", " ", "\"", "p", "a", "g", "e">>,
    \* {"batch_analysis": [1, 2], "n": 
    <<"{", "\"", "b", "a", "t", "c", "h", "_", "a", "n", "a", "l", "y", "s", "i", "s", "\"", ":", " ", "[", "1", ",", " ", "2", "]", ",", " ", "\"", "n", "\"", ":", " ">>,
    \* {"extracted_values": [{"id": "v1"}, {"id": 
    <<"{", "\"", "e", "x", "t", "r", "a", "c", "t", "e", "d", "_", "v", "a", "l", "u", "e", "s", "\"", ":", " ", "[", "{", "\"", "i", "d", "\"", ":", " ", "\"", "v", "1", "\"", "}", ",", " ", "{", "\"", "i", "d", "\"", ":", " ">>,
    \* {"extracted_values": [1] "x": 2}
    <<"{", "\"", "e", "x", "t", "r", "a", "c", "t", "e", "d", "_", "v", "a", "l", "u", "e", "s", "\"", ":", " ", "[", "1", "]", " ", "\"", "x", "\"", ":", " ", "2", "}">>,
    \* {"batch_results": [{"pdf_value_id": "v1"} {"pdf_value_id": "v2"}]}
    <<"{", "\"", "b", "a", "t", "c", "h", "_", "r", "e", "s", "u", "l", "t", "s", "\"", ":", " ", "[", "{", "\"", "p", "d", "f", "_", "v", "a", "l", "u", "e", "_", "i", "d", "\"", ":", " ", "\"", "v", "1", "\"", "}", " ", "{", "\"", "p", "d", "f", "_", "v", "a", "l", "u", "e", "_", "i", "d", "\"", ":", " ", "\"", "v", "2", "\"", "}", "]", "}">>,
    \* {"potential_sources": [3], oops}
    <<"{", "\"", "p", "o", "t", "e", "n", "t", "i", "a", "l", "_", "s", "o", "u", "r", "c", "e", "s", "\"", ":", " ", "[", "3", "]", ",", " ", "o", "o", "p", "s", "}">>,
    \* {"a": 1} and {"b": 2}
    <<"{", "\"", "a", "\"", ":", " ", "1", "}", " ", "a", "n", "d", " ", "{", "\"", "b", "\"", ":", " ", "2", "}">>,
    \* {"batch_results": [{"pdf_value_id": "v1"}]} }
    <<"{", "\"", "b", "a", "t", "c", "h", "_", "r", "e", "s", "u", "l", "t", "s", "\"", ":", " ", "[", "{", "\"", "p", "d", "f", "_", "v", "a", "l", "u", "e", "_", "i", "d", "\"", ":", " ", "\"", "v", "1", "\"", "}", "]", "}", " ", "}">>,
    \* ```json\n{"extracted_values": [{"id": "v1"}]
    <<Backtick, Backtick, Backtick, "j", "s", "o", "n", "\n", "{", "\"", "e", "x", "t", "r", "a", "c", "t", "e", "d", "_", "v", "a", "l", "u", "e", "s", "\"", ":", " ", "[", "{", "\"", "i", "d", "\"", ":", " ", "\"", "v", "1", "\"", "}", "]">>,
    \* {"extracted_values": [1,, 2], "batch_analysis": [7]}
    <<"{", "\"", "e", "x", "t", "r", "a", "c", "t", "e", "d", "_", "v", "a", "l", "u", "e", "s", "\"", ":", " ", "[", "1", ",", ",", " ", "2", "]", ",", " ", "\"", "b", "a", "t", "c", "h", "_", "a", "n", "a", "l", "y", "s", "i", "s", "\"", ":", " ", "[", "7", "]", "}">>,
    \* [1, 2]
    <<"[", "1", ",", " ", "2", "]">>,
    \* {"batch_results": "none"}
    <<"{", "\"", "b", "a", "t", "c", "h", "_", "r", "e", "s", "u", "l", "t", "s", "\"", ":", " ", "\"", "n", "o", "n", "e", "\"", "}">>,
    \* {"k": 01}
    <<"{", "\"", "k", "\"", ":", " ", "0", "1", "}">>,
    \* {"extracted_values": [{"value": "a\nb"}]}
    <<"{", "\"", "e", "x", "t", "r", "a", "c", "t", "e", "d", "_", "v", "a", "l", "u", "e", "s", "\"", ":", " ", "[", "{", "\"", "v", "a", "l", "u", "e", "\"", ":", " ", "\"", "a", "\n", "b", "\"", "}", "]", "}">>,
    \* {"n": 1 // one\n}
    <<"{", "\"", "n", "\"", ":", " ", "1", " ", "/", "/", " ", "o", "n", "e", "\n", "}">>,
    \* {'a': 'it''s'}
    <<"{", "'", "a", "'", ":", " ", "'", "i", "t", "'", "'", "s", "'", "}">>,
    \* {"a": {"b": [1, {"c": 2}]}, "d": []}
    <<"{", "\"", "a", "\"", ":", " ", "{", "\"", "b", "\"", ":", " ", "[", "1", ",", " ", "{", "\"", "c", "\"", ":", " ", "2", "}", "]", "}", ",", " ", "\"", "d", "\"", ":", " ", "[", "]", "}">>,
    \* { "a" : [ ] , "b" : { } }
    <<"{", " ", "\"", "a", "\"", " ", ":", " ", "[", " ", "]", " ", ",", " ", "\"", "b", "\"", " ", ":", " ", "{", " ", "}", " ", "}">>,
    \* {"a": 1, "a": 2}
    <<"{", "\"", "a", "\"", ":", " ", "1", ",", " ", "\"", "a", "\"", ":", " ", "2", "}">>,
    \* {a_1: True, b: False, c: None, d: Truex}
    <<"{", "a", "_", "1", ":", " ", "T", "r", "u", "e", ",", " ", "b", ":", " ", "F", "a", "l", "s", "e", ",", " ", "c", ":", " ", "N", "o", "n", "e", ",", " ", "d", ":", " ", "T", "r", "u", "e", "x", "}">>
}

\* history value: the reply renders no payload
NoPayload == <<>>

NormalizerInputs ==
    WrappedRenderings \cup PseudoJsonRenderings
    \cup {[text |-> m, payload |-> NoPayload] : m \in MalformedTexts \cup {NoText}}

-----------------------------------------------------------------------------
(* _validate_and_enhance_coordinates *)

\* Coordinates lie on a grid of 0.001 and are held as integers in units of
\* 0.0005, so that the center of a box is exact: 1.0 is 2000, 0.01 is 20.
One == 100 * MinBoxSize
DefaultBox == <<One \div 10, One \div 10, One \div 5, One \div 5>>
DefaultCenter == <<(3 * One) \div 20, (3 * One) \div 20>>

Float(ok, v, error) == [ok |-> ok, v |-> v, error |-> error]

\* float(x)
float(x) ==
    CASE x.type = "number" -> Float(TRUE, x.n, "")
      [] x.type = "true" -> Float(TRUE, One, "")
      [] x.type = "false" -> Float(TRUE, 0, "")
      [] x.type = "string" ->
            IF x.chars # <<>> /\ \A k \in 1..Len(x.chars) : x.chars[k] \in Digits
            THEN Float(TRUE, DigitsValue(x.chars, 1, Len(x.chars) + 1, 0) * One, "")
            ELSE Float(FALSE, 0, "ValueError")
      [] OTHER -> Float(FALSE, 0, "TypeError")

\* max(0, min(1, x))
Clamp(x) == Max(0, Min(One, x))

\* lines 913-931, for four numbers
EnhanceBox(b) ==
    LET cx1 == Clamp(b[1])
        cy1 == Clamp(b[2])
        cx2 == Clamp(b[3])
        cy2 == Clamp(b[4])
        \* logical ordering
        x1 == IF cx1 > cx2 THEN cx2 ELSE cx1
        sx2 == IF cx1 > cx2 THEN cx1 ELSE cx2
        y1 == IF cy1 > cy2 THEN cy2 ELSE cy1
        sy2 == IF cy1 > cy2 THEN cy1 ELSE cy2
        \* minimum size
        x2 == IF sx2 - x1 < MinBoxSize THEN Min(One, x1 + MinBoxSize) ELSE sx2
        y2 == IF sy2 - y1 < MinBoxSize THEN Min(One, y1 + MinBoxSize) ELSE sy2
    IN  [bounding_box |-> <<x1, y1, x2, y2>>,
         center_point |-> <<(x1 + x2) \div 2, (y1 + y2) \div 2>>]

Numbers(s) == JArray([k \in 1..Len(s) |-> JNumber(s[k])])

\* value['coordinates'] with the two keys written
WithBox(value, box, center) ==
    JObject((K_coordinates :>
                JObject((K_bounding_box :> Numbers(box)) @@ (K_center_point :> Numbers(center))
                        @@ value.fields[K_coordinates].fields))
            @@ value.fields)

Enhanced(raised, error, value) == [raised |-> raised, error |-> error, value |-> value]

\* x in container, for a text x: None when the test itself raises
In(text, container) ==
    CASE container.type = "object" -> text \in DOMAIN container.fields
      [] container.type = "string" -> Contains(container.chars, text)
      [] container.type = "array" ->
            \E k \in 1..Len(container.items) : container.items[k] = JString(text)

IsContainer(x) == x.type \in {"object", "string", "array"}

\* the elements that "x1, y1, x2, y2 = bbox" unpacks, for len(bbox) == 4
Unpacked(bbox) ==
    CASE bbox.type = "array" -> bbox.items
      [] bbox.type = "string" -> [k \in 1..4 |-> JString(<<bbox.chars[k]>>)]

\* len(bbox), -1 when len() raises
LenOf(bbox) ==
    CASE bbox.type = "array" -> Len(bbox.items)
      [] bbox.type = "string" -> Len(bbox.chars)
      [] bbox.type = "object" -> Cardinality(DOMAIN bbox.fields)
      [] OTHER -> -1

\* the body of the loop, lines 907-935, for one value
EnhanceValue(value) ==
    IF ~IsContainer(value) THEN Enhanced(TRUE, "TypeError", value)
    ELSE IF ~In(K_coordinates, value) THEN Enhanced(FALSE, "", value)
    ELSE IF value.type # "object" THEN Enhanced(TRUE, "TypeError", value)
    ELSE
        LET coordinates == value.fields[K_coordinates] IN
        IF ~IsContainer(coordinates) THEN Enhanced(TRUE, "TypeError", value)
        ELSE IF ~In(K_bounding_box, coordinates) THEN Enhanced(FALSE, "", value)
        ELSE IF coordinates.type # "object" THEN Enhanced(TRUE, "TypeError", value)
        ELSE
            LET bbox == coordinates.fields[K_bounding_box] IN
            IF LenOf(bbox) = -1 THEN Enhanced(TRUE, "TypeError", value)
            ELSE IF LenOf(bbox) # 4
            THEN Enhanced(FALSE, "", WithBox(value, DefaultBox, DefaultCenter))
            ELSE IF bbox.type = "object" THEN Enhanced(TRUE, "ValueError", value)
            ELSE
                LET f == [k \in 1..4 |-> float(Unpacked(bbox)[k])] IN
                IF \E k \in 1..4 : ~f[k].ok
                THEN Enhanced(TRUE, f[CHOOSE k \in 1..4 :
                                        ~f[k].ok /\ \A j \in 1..(k - 1) : f[j].ok].error, value)
                ELSE LET box == EnhanceBox([k \in 1..4 |-> f[k].v]) IN
                     Enhanced(FALSE, "", WithBox(value, box.bounding_box, box.center_point))

\* the loop of line 906 from value k on; out holds the values already visited
EnhanceFrom(values, k, out) ==
    LET raising == {j \in k..Len(values) : EnhanceValue(values[j]).raised} IN
    IF raising = {}
    THEN [raised |-> FALSE, error |-> "",
          values |-> out \o Listed([j \in 1..(Len(values) - k + 1) |->
                                        EnhanceValue(values[k + j - 1]).value])]
    ELSE \* the first value whose iteration raises ends the loop
         LET first == CHOOSE j \in raising : \A h \in raising : j <= h IN
         [raised |-> TRUE, error |-> EnhanceValue(values[first]).error,
          values |-> out \o Listed([j \in 1..(first - k) |->
                                        EnhanceValue(values[k + j - 1]).value])]

\* _validate_and_enhance_coordinates(result, image_size): the returned
\* dictionary, or the exception that leaves the function
validate_and_enhance_coordinates(result) ==
    IF K_extracted_values \notin DOMAIN result.fields
    THEN [raised |-> FALSE, error |-> "", result |-> result]
    ELSE
        LET extracted == result.fields[K_extracted_values] IN
        IF extracted.type # "array"
        THEN \* iterating a dict or a string visits keys or characters, which
             \* carry no coordinates; None or a number cannot be iterated
             IF extracted.type \in {"object", "string"}
             THEN [raised |-> FALSE, error |-> "", result |-> result]
             ELSE [raised |-> TRUE, error |-> "TypeError", result |-> result]
        ELSE
            LET e == EnhanceFrom(extracted.items, 1, <<>>) IN
            [raised |-> e.raised, error |-> e.error,
             result |-> IF e.raised THEN result
                        ELSE Update(result, JObject(K_extracted_values :> JArray(e.values)))]

(* Page replies handed to _validate_and_enhance_coordinates *)

\* coordinates drawn: -0.2, 0, 0.005, 0.5, 0.995, 1 and 1.3
CoordinateInputs == {0 - One \div 5, 0, MinBoxSize \div 2, One \div 2, One - MinBoxSize \div 2,
                     One, One + (3 * One) \div 10}

\* an extracted value as the page prompt asks for it (lines 108-124)
ValueWith(k, coordinates) ==
    JObject((K_id :> ValueId(k)) @@ (K_coordinates :> coordinates))

BoxValue(k, bbox) == ValueWith(k, JObject(K_bounding_box :> bbox))

\* values whose coordinates are not four numbers
OddValues(k) ==
    {JObject(K_id :> ValueId(k)),
     ValueWith(k, EmptyDict),
     ValueWith(k, JNull),
     BoxValue(k, JNull),
     BoxValue(k, Numbers(<<One \div 10, One \div 5>>)),
     BoxValue(k, Numbers(<<0, 0, One, One, One>>)),
     BoxValue(k, JArray(<<JNumber(0), JNumber(0), JString(<<"n", "/", "a">>), JNumber(One)>>)),
     BoxValue(k, JArray(<<JNumber(0), JNull, JNumber(One), JNumber(One)>>)),
     BoxValue(k, JArray(<<JString(<<"0">>), JFalse, JString(<<"1">>), JTrue>>))}

PageReply(values) ==
    JObject((K_page_number :> JNumber(1)) @@ (K_extracted_values :> JArray(values)))

PageReplies ==
    \* one value, any box of four numbers
    {PageReply(<<BoxValue(1, Numbers(b))>>) : b \in [1..4 -> CoordinateInputs]}
    \* an odd value before or after a value with a reversed, out-of-range box
    \cup UNION {{PageReply(<<o, BoxValue(2, Numbers(<<One, One + One, 0, 0 - One>>))>>),
                 PageReply(<<BoxValue(2, Numbers(<<One, One + One, 0, 0 - One>>)), o>>),
                 PageReply(<<o>>)} : o \in OddValues(1)}
    \* no value; extracted_values missing or null
    \cup {PageReply(<<>>), EmptyDict, JObject(K_extracted_values :> JNull)}

-----------------------------------------------------------------------------
(* PDF extraction: extract_comprehensive_pdf_data *)

K_document_summary == <<"d", "o", "c", "u", "m", "e", "n", "t", "_", "s", "u", "m", "m", "a", "r", "y">>
K_total_pages == <<"t", "o", "t", "a", "l", "_", "p", "a", "g", "e", "s">>
K_document_type == <<"d", "o", "c", "u", "m", "e", "n", "t", "_", "t", "y", "p", "e">>
K_all_extracted_values == <<"a", "l", "l", "_", "e", "x", "t", "r", "a", "c", "t", "e", "d", "_", "v", "a", "l", "u", "e", "s">>
K_extraction_quality_metrics == <<"e", "x", "t", "r", "a", "c", "t", "i", "o", "n", "_", "q", "u", "a", "l", "i", "t", "y", "_", "m", "e", "t", "r", "i", "c", "s">>
K_total_values_extracted == <<"t", "o", "t", "a", "l", "_", "v", "a", "l", "u", "e", "s", "_", "e", "x", "t", "r", "a", "c", "t", "e", "d">>
K_synthesis_error == <<"s", "y", "n", "t", "h", "e", "s", "i", "s", "_", "e", "r", "r", "o", "r">>
FinancialPresentation == <<"f", "i", "n", "a", "n", "c", "i", "a", "l", "_", "p", "r", "e", "s", "e", "n", "t", "a", "t", "i", "o", "n">>

\* bool(x) of Python for a JSON value
Truthy(x) ==
    CASE x.type = "null" -> FALSE
      [] x.type = "false" -> FALSE
      [] x.type = "true" -> TRUE
      [] x.type = "number" -> x.n # 0
      [] x.type = "string" -> x.chars # <<>>
      [] x.type = "array" -> x.items # <<>>
      [] x.type = "object" -> DOMAIN x.fields # {}

\* what happens to one page inside _extract_page_with_coordinates: the
\* rasterization raises (lines 78-83), or the LLM call answers as a reply
RasterFailure(msg) == [kind |-> "raster", msg |-> msg, result |-> JNull]

\* the dictionary of the except branch, lines 142-147
PageFailure(num, msg) ==
    JObject((K_page_number :> JNumber(num))
         @@ (K_page_dimensions :> JObject((K_width :> JNumber(800)) @@ (K_height :> JNumber(600))))
         @@ (K_extracted_values :> JArray(<<>>))
         @@ (K_error :> JString(msg)))

\* the page took the except branch of line 140
PageFails(num, event) ==
    \/ event.kind \in {"raster", "raise"}
    \/ validate_and_enhance_coordinates(
            NormalizedReply(event, PageContext(num))).raised

\* _extract_page_with_coordinates(page, page_num)
extract_page_with_coordinates(num, event) ==
    IF event.kind \in {"raster", "raise"} THEN PageFailure(num, event.msg)
    ELSE
        LET result == NormalizedReply(event, PageContext(num))
            validated == validate_and_enhance_coordinates(result)
        IN  IF validated.raised THEN PageFailure(num, <<validated.error>>)
            ELSE validated.result

\* the loop of lines 847-852 over the values of one page: raised when an
\* iterated element does not support value['page_number'] = ...
PageValues(page) ==
    LET page_values == Get(page, K_extracted_values, JArray(<<>>))
        number == Get(page, K_page_number, JNumber(0))
    IN  CASE page_values.type = "array" ->
                IF \E k \in 1..Len(page_values.items) : page_values.items[k].type # "object"
                THEN [raised |-> TRUE, values |-> <<>>]
                ELSE [raised |-> FALSE,
                      values |-> [k \in 1..Len(page_values.items) |->
                                    Update(page_values.items[k],
                                           JObject(K_page_number :> number))]]
          [] page_values.type \in {"object", "string"} ->
                \* the keys of a dict, the characters of a string
                [raised |-> Truthy(page_values), values |-> <<>>]
          [] OTHER -> [raised |-> TRUE, values |-> <<>>]

\* all_values after the pages from k on (lines 846-852)
RECURSIVE AllValuesFrom(_, _, _)
AllValuesFrom(analyses, k, acc) ==
    IF k > Len(analyses) THEN [raised |-> FALSE, values |-> acc]
    ELSE LET pv == PageValues(analyses[k]) IN
         IF pv.raised \/ Len(acc) < 0 THEN [raised |-> TRUE, values |-> acc]
         ELSE AllValuesFrom(analyses, k + 1, acc \o pv.values)

\* the dictionary of the except branch, lines 890-900
SynthesisFailure(analyses, all_values, msg) ==
    JObject((K_document_summary :>
                JObject((K_total_pages :> JNumber(Len(analyses)))
                     @@ (K_document_type :> JString(FinancialPresentation))))
         @@ (K_all_extracted_values :> JArray(all_values))
         @@ (K_extraction_quality_metrics :>
                JObject(K_total_values_extracted :> JNumber(Len(all_values))))
         @@ (K_synthesis_error :> JString(msg)))

\* _synthesize_document_analysis(page_analyses), reply being what the LLM
\* call of line 876 does
synthesize_document_analysis(analyses, reply) ==
    LET all == AllValuesFrom(analyses, 1, <<>>) IN
    IF all.raised THEN [raised |-> TRUE, result |-> JNull]
    ELSE IF reply.kind = "raise"
    THEN [raised |-> FALSE, result |-> SynthesisFailure(analyses, all.values, reply.msg)]
    ELSE
        LET synthesis == NormalizedReply(reply, SynthesisContext) IN
        [raised |-> FALSE,
         result |-> IF ~Truthy(Get(synthesis, K_all_extracted_values, JNull))
                    THEN Update(synthesis, JObject(K_all_extracted_values :> JArray(all.values)))
                    ELSE synthesis]

-----------------------------------------------------------------------------
(* Excel analysis: scoring, cell batches, sheet and workbook synthesis *)

K_cell_ref == <<"c", "e", "l", "l", "_", "r", "e", "f">>
K_cell_reference == <<"c", "e", "l", "l", "_", "r", "e", "f", "e", "r", "e", "n", "c", "e">>
K_presentation_likelihood == <<"p", "r", "e", "s", "e", "n", "t", "a", "t", "i", "o", "n", "_", "l", "i", "k", "e", "l", "i", "h", "o", "o", "d">>
K_importance_score == <<"i", "m", "p", "o", "r", "t", "a", "n", "c", "e", "_", "s", "c", "o", "r", "e">>
K_font_bold == <<"f", "o", "n", "t", "_", "b", "o", "l", "d">>
K_font_size == <<"f", "o", "n", "t", "_", "s", "i", "z", "e">>
K_number_format == <<"n", "u", "m", "b", "e", "r", "_", "f", "o", "r", "m", "a", "t">>
K_formula == <<"f", "o", "r", "m", "u", "l", "a">>
K_data_type == <<"d", "a", "t", "a", "_", "t", "y", "p", "e">>
K_value_category == <<"v", "a", "l", "u", "e", "_", "c", "a", "t", "e", "g", "o", "r", "y">>
K_source_sheet == <<"s", "o", "u", "r", "c", "e", "_", "s", "h", "e", "e", "t">>
K_sheet_index == <<"s", "h", "e", "e", "t", "_", "i", "n", "d", "e", "x">>
K_sheet_name == <<"s", "h", "e", "e", "t", "_", "n", "a", "m", "e">>
K_potential_sources == <<"p", "o", "t", "e", "n", "t", "i", "a", "l", "_", "s", "o", "u", "r", "c", "e", "s">>
K_analysis_metadata == <<"a", "n", "a", "l", "y", "s", "i", "s", "_", "m", "e", "t", "a", "d", "a", "t", "a">>
K_total_numeric_cells_analyzed == <<"t", "o", "t", "a", "l", "_", "n", "u", "m", "e", "r", "i", "c", "_", "c", "e", "l", "l", "s", "_", "a", "n", "a", "l", "y", "z", "e", "d">>
K_total_batches_processed == <<"t", "o", "t", "a", "l", "_", "b", "a", "t", "c", "h", "e", "s", "_", "p", "r", "o", "c", "e", "s", "s", "e", "d">>
K_high_value_cells_count == <<"h", "i", "g", "h", "_", "v", "a", "l", "u", "e", "_", "c", "e", "l", "l", "s", "_", "c", "o", "u", "n", "t">>
K_workbook_summary == <<"w", "o", "r", "k", "b", "o", "o", "k", "_", "s", "u", "m", "m", "a", "r", "y">>
K_total_sheets_processed == <<"t", "o", "t", "a", "l", "_", "s", "h", "e", "e", "t", "s", "_", "p", "r", "o", "c", "e", "s", "s", "e", "d">>
K_total_potential_sources == <<"t", "o", "t", "a", "l", "_", "p", "o", "t", "e", "n", "t", "i", "a", "l", "_", "s", "o", "u", "r", "c", "e", "s">>
K_high_likelihood_sources == <<"h", "i", "g", "h", "_", "l", "i", "k", "e", "l", "i", "h", "o", "o", "d", "_", "s", "o", "u", "r", "c", "e", "s">>
K_medium_likelihood_sources == <<"m", "e", "d", "i", "u", "m", "_", "l", "i", "k", "e", "l", "i", "h", "o", "o", "d", "_", "s", "o", "u", "r", "c", "e", "s">>
K_category_breakdown == <<"c", "a", "t", "e", "g", "o", "r", "y", "_", "b", "r", "e", "a", "k", "d", "o", "w", "n">>
K_sheet_analyses == <<"s", "h", "e", "e", "t", "_", "a", "n", "a", "l", "y", "s", "e", "s">>
AnalysisFailed == <<"A", "n", "a", "l", "y", "s", "i", "s", " ", "f", "a", "i", "l", "e", "d", " ", "-", " ", "m", "a", "n", "u", "a", "l", " ", "r", "e", "v", "i", "e", "w", " ", "n", "e", "e", "d", "e", "d">>
UnknownText == <<"u", "n", "k", "n", "o", "w", "n">>

\* the n of a numeric field, 0 when the key is missing: x.get(key, 0)
NumberOf(x, key) == Get(x, key, JNumber(0)).n

\* list.sort(key=lambda x: x.get(key, 0), reverse=True): stable, the larger
\* key first
SortDescending(s, key) ==
    LET n == Listed([k \in 1..Len(s) |-> NumberOf(s[k], key)])
        \* where element k goes: after the larger ones and the equal ones before it
        position == Listed([k \in 1..Len(s) |->
                        Cardinality({j \in 1..Len(s) : n[j] > n[k] \/ (n[j] = n[k] /\ j <= k)})])
    IN  Listed([p \in 1..Len(s) |-> s[CHOOSE k \in 1..Len(s) : position[k] = p]])

\* the score of lines 457-494 for a numeric cell; values are integers, and the
\* currency characters other than $ are written EUR, GBP and JPY
ImportanceScore(cell) ==
    LET value == cell.fields[K_value].n
        abs_value == IF value < 0 THEN 0 - value ELSE value
        number_format == Get(cell, K_number_format, JString(<<>>)).chars
    IN  (IF abs_value >= 1000000 THEN 3
         ELSE IF abs_value >= 100000 THEN 2
         ELSE IF abs_value >= 10000 THEN 1 ELSE 0)
        + (IF abs_value > 0 /\ abs_value % 1000 = 0 THEN 1 ELSE 0)
        + (IF 0 < abs_value /\ abs_value <= 100 /\ Contains(number_format, <<"%">>)
           THEN 2 ELSE 0)
        + (IF Truthy(Get(cell, K_font_bold, JFalse)) THEN 2 ELSE 0)
        + (IF NumberOf(cell, K_font_size) > 12 THEN 1 ELSE 0)
        + (IF \E c \in {"$", "EUR", "GBP", "JPY"} : Contains(number_format, <<c>>)
           THEN 2 ELSE 0)
        + (IF Truthy(Get(cell, K_formula, JNull)) THEN 1 ELSE 0)

\* numeric_cells after _identify_high_value_cells has stored the scores in
\* the cells it selects (line 496; the list and the selection share the dicts)
Scored(numeric_cells) ==
    Listed([k \in 1..Len(numeric_cells) |->
        IF ImportanceScore(numeric_cells[k]) >= HighValueScore
        THEN Update(numeric_cells[k],
                    JObject(K_importance_score :> JNumber(ImportanceScore(numeric_cells[k]))))
        ELSE numeric_cells[k]])

\* the subsequence of s of the elements that satisfy keep[k]
Filter(s, keep) ==
    LET kept == {k \in 1..Len(s) : keep[k]}
        rank == Listed([k \in 1..Len(s) |-> Cardinality({j \in kept : j <= k})])
    IN  Listed([p \in 1..Cardinality(kept) |-> s[CHOOSE k \in kept : rank[k] = p]])

\* _identify_high_value_cells(numeric_cells, text_cells)
identify_high_value_cells(numeric_cells) ==
    LET scored == Scored(numeric_cells)
        high_value_cells ==
            Filter(scored, [k \in 1..Len(scored) |-> K_importance_score \in DOMAIN scored[k].fields])
    IN  Slice(SortDescending(high_value_cells, K_importance_score), 0, HighValueCap)

\* the list of the except branch, lines 438-448
BatchFallback(cells_batch, msg) ==
    [k \in 1..Min(Len(cells_batch), FallbackCells) |->
        JObject((K_cell_reference :> cells_batch[k].fields[K_cell_ref])
             @@ (K_value :> cells_batch[k].fields[K_value])
             @@ (K_business_context :> JString(AnalysisFailed))
             @@ (K_presentation_likelihood :> JNumber(FallbackLikelihood))
             @@ (K_data_type :> JString(UnknownText))
             @@ (K_error :> JString(msg)))]

\* source.get("presentation_likelihood", 0) >= 0.3 raises for this source
FilterRaises(source) ==
    \/ source.type # "object"
    \/ Get(source, K_presentation_likelihood, JNumber(0)).type # "number"

\* _analyze_cell_batch_with_gemini(sheet_name, cells_batch, batch_type, batch_index),
\* for a batch that is not empty; reply is what the LLM call of line 421 does
analyze_cell_batch_with_gemini(sheet_name, cells_batch, batch_index, reply) ==
    IF reply.kind = "raise" THEN BatchFallback(cells_batch, reply.msg)
    ELSE
        LET result == NormalizedReply(reply, ExcelBatchContext(sheet_name, batch_index))
            batch_analysis == Get(result, K_batch_analysis, JArray(<<>>))
        IN  CASE batch_analysis.type = "array" ->
                    IF \E k \in 1..Len(batch_analysis.items) : FilterRaises(batch_analysis.items[k])
                    THEN BatchFallback(cells_batch, TypeErrorMessage)
                    ELSE Filter(batch_analysis.items,
                                [k \in 1..Len(batch_analysis.items) |->
                                    NumberOf(batch_analysis.items[k], K_presentation_likelihood)
                                        >= PresentationThreshold])
              [] batch_analysis.type \in {"object", "string"} ->
                    IF Truthy(batch_analysis) THEN BatchFallback(cells_batch, AttributeErrorMessage)
                    ELSE <<>>
              [] OTHER -> BatchFallback(cells_batch, TypeErrorMessage)

\* mutant: the high-value cells are not taken out of the list
RemainingCells_Unfiltered(numeric_cells, high_value_cells) == numeric_cells

\* remaining_cells of line 327
RemainingCells(numeric_cells, high_value_cells) ==
    Filter(numeric_cells,
           [k \in 1..Len(numeric_cells) |->
                \A j \in 1..Len(high_value_cells) : high_value_cells[j] # numeric_cells[k]])

\* math.ceil(len(remaining_cells) / batch_size)
TotalBatches(remaining_cells) ==
    (Len(remaining_cells) + max_cells_per_batch - 1) \div max_cells_per_batch

\* batch_cells of lines 333-335, batch_index counting from 0
BatchCells(remaining_cells, batch_index) ==
    Slice(remaining_cells, batch_index * max_cells_per_batch,
          Min(batch_index * max_cells_per_batch + max_cells_per_batch, Len(remaining_cells)))

\* analysis_result of lines 347-359
SheetAnalysis(sheet_name, numeric_cells, high_value_cells, sources, total_batches) ==
    JObject((K_sheet_name :> JString(sheet_name))
         @@ (K_potential_sources :> JArray(SortDescending(sources, K_presentation_likelihood)))
         @@ (K_analysis_metadata :>
                JObject((K_total_numeric_cells_analyzed :> JNumber(Len(numeric_cells)))
                     @@ (K_total_batches_processed :>
                            JNumber(total_batches + (IF high_value_cells # <<>> THEN 1 ELSE 0)))
                     @@ (K_high_value_cells_count :> JNumber(Len(high_value_cells))))))

\* lines 185-189: the sources of a sheet, tagged with the sheet
Tagged(sources, sheet_name, sheet_index) ==
    [k \in 1..Len(sources) |->
        Update(sources[k], JObject((K_source_sheet :> JString(sheet_name))
                                @@ (K_sheet_index :> JNumber(sheet_index))))]

\* a value_category that cannot be a dictionary key (line 587)
Unhashable(source) == Get(source, K_value_category, JNull).type \in {"array", "object"}

\* _synthesize_comprehensive_excel_workbook without the sort of line 576
synthesize_comprehensive_excel_workbook_Unsorted(analyses, sources) ==
    LET sorted == sources
        AtLeastCount(lo) == Cardinality({k \in 1..Len(sorted) :
                                NumberOf(sorted[k], K_presentation_likelihood) >= lo})
    IN  IF \E k \in 1..Len(sorted) : Unhashable(sorted[k])
        THEN \* the except branch, lines 624-635
             JObject((K_workbook_summary :>
                        JObject((K_total_sheets_processed :> JNumber(Len(analyses)))
                             @@ (K_total_potential_sources :> JNumber(Len(sorted)))))
                  @@ (K_potential_sources :> JArray(sorted))
                  @@ (K_sheet_analyses :> JArray(analyses))
                  @@ (K_synthesis_error :> JString(TypeErrorMessage)))
        ELSE JObject((K_workbook_summary :>
                        JObject((K_total_sheets_processed :> JNumber(Len(analyses)))
                             @@ (K_total_potential_sources :> JNumber(Len(sorted)))
                             @@ (K_high_likelihood_sources :>
                                    JNumber(AtLeastCount(HighLikelihood)))
                             @@ (K_medium_likelihood_sources :>
                                    JNumber(AtLeastCount(MediumLikelihood) - AtLeastCount(HighLikelihood)))))
                  @@ (K_potential_sources :> JArray(sorted))
                  @@ (K_sheet_analyses :> JArray(analyses)))

\* _synthesize_comprehensive_excel_workbook(sheet_analyses, all_potential_sources)
synthesize_comprehensive_excel_workbook(analyses, sources) ==
    LET sorted == SortDescending(sources, K_presentation_likelihood)
        AtLeastCount(lo) == Cardinality({k \in 1..Len(sorted) :
                                NumberOf(sorted[k], K_presentation_likelihood) >= lo})
    IN  IF \E k \in 1..Len(sorted) : Unhashable(sorted[k])
        THEN \* the except branch, lines 624-635; the list has been sorted in place
             JObject((K_workbook_summary :>
                        JObject((K_total_sheets_processed :> JNumber(Len(analyses)))
                             @@ (K_total_potential_sources :> JNumber(Len(sorted)))))
                  @@ (K_potential_sources :> JArray(sorted))
                  @@ (K_sheet_analyses :> JArray(analyses))
                  @@ (K_synthesis_error :> JString(TypeErrorMessage)))
        ELSE JObject((K_workbook_summary :>
                        JObject((K_total_sheets_processed :> JNumber(Len(analyses)))
                             @@ (K_total_potential_sources :> JNumber(Len(sorted)))
                             @@ (K_high_likelihood_sources :>
                                    JNumber(AtLeastCount(HighLikelihood)))
                             @@ (K_medium_likelihood_sources :>
                                    JNumber(AtLeastCount(MediumLikelihood) - AtLeastCount(HighLikelihood)))))
                  @@ (K_potential_sources :> JArray(sorted))
                  @@ (K_sheet_analyses :> JArray(analyses)))

-----------------------------------------------------------------------------
(* run_direct_comprehensive_audit *)

\* before a call: no dictionary returned yet
NotCalled == [none |-> TRUE]

\* no row of the audit session in the database
NoSession == [absent |-> TRUE]

\* a run_audit request that has not reached the handler
NewRequest ==
    [pc |-> "waiting", worker |-> 0, began |-> FALSE, loaded |-> "", raised |-> FALSE,
     audit_results |-> JNull, response |-> NotCalled]

\* a confirmed mapping by what the fallback validation does with it: a
\* dictionary, a dictionary whose confidence is not a number, anything else
MappingKinds == {"dict", "odd_confidence", "other"}

Init ==
    /\ pc = "idle"
    /\ pdf_values = <<>>
    /\ excel_values = <<>>
    /\ i = 0
    /\ all_audit_results = <<>>
    /\ report = NoReport
    /\ batch_errors = <<>>
    /\ replies = <<>>
    /\ reply_text = NoText
    /\ reply_context = <<>>
    /\ context_kind = "none"
    /\ payload = NoPayload
    /\ normalized = NotCalled
    /\ page_result = NotCalled
    /\ enhanced = NotCalled
    /\ pdf_pc = "idle"
    /\ doc_len = 0
    /\ page_num = 0
    /\ page_analyses = <<>>
    /\ failed_pages = {}
    /\ synthesis_reply = NotCalled
    /\ comprehensive_data = NotCalled
    /\ xl_pc = "idle"
    /\ wb_sheets = <<>>
    /\ sheet_pos = 0
    /\ sheet_numeric = <<>>
    /\ sheet_high = <<>>
    /\ sheet_remaining = <<>>
    /\ next_batch = 0
    /\ sheet_sources = <<>>
    /\ workbook_sources = <<>>
    /\ analyses_done = <<>>
    /\ batch_calls = <<>>
    /\ workbook_analysis = NotCalled
    /\ inv_pc = "idle"
    /\ inv_service = "none"
    /\ inv_side = 0
    /\ inv_at = 0
    /\ inv_cells = <<>>
    /\ inv_numeric = <<>>
    /\ inv_text = <<>>
    /\ inv_raised = {}
    /\ inv_empty = {}
    /\ inv_structure = NotCalled
    /\ ws_pc = "idle"
    /\ total_sheets = 0
    /\ ws_pos = 0
    /\ sheets_data = <<>>
    /\ comprehensive_statistics = NotCalled
    /\ ws_failed = {}
    /\ ws_result = NotCalled
    /\ scored_cells = <<>>
    /\ scores = NotCalled
    /\ loop_pc = "idle"
    /\ mappings = 0
    /\ batch_start = 0
    /\ task_pc = <<>>
    /\ units_left = 0
    /\ unit_pc = "ready"
    /\ audit_session = NoSession
    /\ requests = [r \in 1..MaxRequests |-> NewRequest]
    /\ audit_runs = 0
    /\ utcnow = 0

\* the call, lines 640-654
Call ==
    /\ pc = "idle"
    /\ \E pv \in PdfInputs, ev \in ExcelInputs :
        /\ pdf_values' = pv
        /\ excel_values' = ev
        /\ IF pv = <<>> \/ ev = <<>>
           THEN /\ report' = EarlyReport
                /\ pc' = "done"
           ELSE /\ report' = report
                /\ pc' = "loop"
    /\ UNCHANGED <<i, all_audit_results, batch_errors, replies, normalizerVars, coordinateVars, pdfVars, excelVars, serviceVars>>

\* mutant: the next batch starts at the last value of the one before
ProcessBatch_Overlapping ==
    /\ pc = "loop"
    /\ i < Len(pdf_values)
    /\ LET batch == Slice(pdf_values, i, i + batch_size)
           batch_num == (i \div batch_size) + 1
       IN  \E reply \in Replies(batch) :
            LET out == process_direct_audit_batch(batch, batch_num, reply) IN
            /\ all_audit_results' = all_audit_results \o out.results
            /\ batch_errors' = IF out.error # <<>>
                               THEN (batch_num :> out.error) @@ batch_errors
                               ELSE batch_errors
            /\ replies' = Append(replies, ReplySummary(reply))
    /\ i' = i + batch_size - 1
    /\ UNCHANGED <<pc, pdf_values, excel_values, report, normalizerVars, coordinateVars, pdfVars, excelVars, serviceVars>>

\* one iteration of the loop of lines 656-660
ProcessBatch ==
    /\ pc = "loop"
    /\ i < Len(pdf_values)
    /\ LET batch == Slice(pdf_values, i, i + batch_size)
           batch_num == (i \div batch_size) + 1
       IN  \E reply \in Replies(batch) :
            LET out == process_direct_audit_batch(batch, batch_num, reply) IN
            /\ all_audit_results' = all_audit_results \o out.results
            /\ batch_errors' = IF out.error # <<>>
                               THEN (batch_num :> out.error) @@ batch_errors
                               ELSE batch_errors
            /\ replies' = Append(replies, ReplySummary(reply))
    /\ i' = i + batch_size
    /\ UNCHANGED <<pc, pdf_values, excel_values, report, normalizerVars, coordinateVars, pdfVars, excelVars, serviceVars>>

\* the loop is over: lines 662-691
Return ==
    /\ pc = "loop"
    /\ i >= Len(pdf_values)
    /\ report' = FinalReport(all_audit_results)
    /\ pc' = "done"
    /\ UNCHANGED <<pdf_values, excel_values, i, all_audit_results, batch_errors, replies,
                   normalizerVars, coordinateVars, pdfVars, excelVars, serviceVars>>

Next == Call \/ ProcessBatch \/ Return

Spec == Init /\ [][Next]_vars

\* every awaited call of the loop returns or raises, and the sleep of line 660
\* ends: the coroutine is not suspended for ever. This is weak fairness of
\* Next, written with what enables Next (the audit has not returned) and with
\* what every step of Next does (it changes pc or i)
FairSpec == Spec /\ ([]<>(pc = "done") \/ []<><<pc' # pc \/ i' # i>>_vars)

-----------------------------------------------------------------------------
(* The Response Normalizer as a state machine *)

\* an LLM call returns: the caller holds response.text and its context string
Respond ==
    /\ context_kind = "none"
    /\ \E in \in NormalizerInputs, c \in Contexts :
        /\ reply_text' = in.text
        /\ payload' = in.payload
        /\ reply_context' = c.context
        /\ context_kind' = c.kind
    /\ UNCHANGED <<normalized, auditVars, coordinateVars, pdfVars, excelVars, serviceVars>>

\* await self._parse_gemini_json_response_robust(response.text, context)
Normalize ==
    /\ context_kind # "none"
    /\ normalized = NotCalled
    /\ normalized' = parse_gemini_json_response_robust(reply_text, reply_context)
    /\ UNCHANGED <<reply_text, reply_context, context_kind, payload, auditVars, coordinateVars, pdfVars, excelVars, serviceVars>>

NextNormalizer == Respond \/ Normalize

SpecNormalizer == Init /\ [][NextNormalizer]_vars

-----------------------------------------------------------------------------
(* Coordinate validation as a state machine *)

\* the normalizer has returned the dictionary of a page (line 132)
Extracted ==
    /\ page_result = NotCalled
    /\ \E r \in PageReplies : page_result' = r
    /\ UNCHANGED <<enhanced, auditVars, normalizerVars, pdfVars, excelVars, serviceVars>>

\* self._validate_and_enhance_coordinates(result, image.size), line 135
Enhance ==
    /\ page_result # NotCalled
    /\ enhanced = NotCalled
    /\ enhanced' = validate_and_enhance_coordinates(page_result)
    /\ UNCHANGED <<page_result, auditVars, normalizerVars, pdfVars, excelVars, serviceVars>>

NextCoordinates == Extracted \/ Enhance

SpecCoordinates == Init /\ [][NextCoordinates]_vars

-----------------------------------------------------------------------------
(* PDF extraction as a state machine *)

ValueIdPrefix == <<"v", "a", "l", "u", "e", "_">>

\* value k of page p as the page prompt asks for it (lines 108-124)
PageValue(p, k) ==
    JObject((K_id :> JString(ValueIdPrefix \o Str(p) \o <<"_">> \o Str(k)))
         @@ (K_value :> JString(<<"$">> \o Str(k))))

PageValueList(p, n) == [k \in 1..n |-> PageValue(p, k)]

\* numbers of values the LLM finds on page p; the first page may hold enough
\* for the document to exceed what the synthesis prompt shows
PageSizes(p) == IF p = 1 THEN {0, 1, 2, SynthesisPromptCap - 1} ELSE {0, 1, 2}

RasterMessage == <<"c", "a", "n", "n", "o", "t", " ", "r", "e", "n", "d", "e", "r", " ", "p", "a", "g", "e">>

\* what can happen to page p
PageEvents(p) ==
    {RasterFailure(RasterMessage)}
    \cup {RaiseReply(m) : m \in ExceptionMessages}
    \cup {UnparseableReply}
    \* the reply the prompt asks for
    \cup {ParsedReply(JObject((K_page_number :> JNumber(p))
                           @@ (K_extracted_values :> JArray(PageValueList(p, n))))) :
            n \in PageSizes(p)}
    \* a reply without page_number
    \cup {ParsedReply(JObject(K_extracted_values :> JArray(PageValueList(p, 1))))}
    \* a value whose coordinates are null: the validation raises
    \cup {ParsedReply(PageReply(<<PageValue(p, 1), ValueWith(2, JNull)>>))}
    \* a value that is no dictionary
    \cup {ParsedReply(PageReply(<<JString(<<"5">>)>>))}

SynthesisDict(values) ==
    JObject((K_document_summary :> JObject(K_document_type :> JString(FinancialPresentation)))
         @@ (K_all_extracted_values :> values))

\* what the synthesis LLM call can do, having been shown all_values[:100]
SynthesisReplies(all_values) ==
    LET shown == Slice(all_values, 0, SynthesisPromptCap) IN
    {RaiseReply(m) : m \in ExceptionMessages}
    \cup {UnparseableReply}
    \* the list as shown; an empty list; null; no list
    \cup {ParsedReply(SynthesisDict(JArray(shown))),
          ParsedReply(SynthesisDict(JArray(<<>>))),
          ParsedReply(SynthesisDict(JNull)),
          ParsedReply(JObject(K_document_summary :> EmptyDict))}
    \* the list without its first value; the list with its first value rewritten
    \cup (IF shown = <<>> THEN {}
          ELSE {ParsedReply(SynthesisDict(JArray(Rest(shown, 2)))),
                ParsedReply(SynthesisDict(JArray(
                    <<Update(shown[1], JObject(K_value :> JString(<<"?">>)))>> \o Rest(shown, 2))))})

\* doc = fitz.open(pdf_path), lines 47-48
OpenDocument ==
    /\ pdf_pc = "idle"
    /\ \E n \in 0..MaxPages : doc_len' = n
    /\ pdf_pc' = "pages"
    /\ UNCHANGED <<page_num, page_analyses, failed_pages, synthesis_reply, comprehensive_data,
                   auditVars, normalizerVars, coordinateVars, excelVars, serviceVars>>

\* fitz.open raises: the except of lines 68-70 re-raises
OpenFails ==
    /\ pdf_pc = "idle"
    /\ pdf_pc' = "raised"
    /\ UNCHANGED <<doc_len, page_num, page_analyses, failed_pages, synthesis_reply,
                   comprehensive_data, auditVars, normalizerVars, coordinateVars, excelVars, serviceVars>>

\* one iteration of the loop of lines 50-58
ExtractPage ==
    /\ pdf_pc = "pages"
    /\ page_num < doc_len
    /\ \E event \in PageEvents(page_num + 1) :
        /\ page_analyses' = Append(page_analyses,
                                   extract_page_with_coordinates(page_num + 1, event))
        /\ failed_pages' = IF PageFails(page_num + 1, event)
                           THEN failed_pages \cup {page_num + 1}
                           ELSE failed_pages
    /\ page_num' = page_num + 1
    /\ UNCHANGED <<pdf_pc, doc_len, synthesis_reply, comprehensive_data,
                   auditVars, normalizerVars, coordinateVars, excelVars, serviceVars>>

\* the loop is over: lines 60-66
Synthesize ==
    /\ pdf_pc = "pages"
    /\ page_num >= doc_len
    /\ LET all == AllValuesFrom(page_analyses, 1, <<>>) IN
        IF all.raised
        THEN \* the exception leaves _synthesize_document_analysis and is re-raised
             /\ pdf_pc' = "raised"
             /\ UNCHANGED <<synthesis_reply, comprehensive_data>>
        ELSE \E reply \in SynthesisReplies(all.values) :
                /\ synthesis_reply' = reply
                /\ comprehensive_data' = synthesize_document_analysis(page_analyses, reply).result
                /\ pdf_pc' = "done"
    /\ UNCHANGED <<doc_len, page_num, page_analyses, failed_pages,
                   auditVars, normalizerVars, coordinateVars, excelVars, serviceVars>>

\* what the caller of a cancelled extraction receives: asyncio.CancelledError,
\* which is no Exception, leaves the coroutine through the except of line 68
CancelledError == [type |-> "exception", class |-> "CancelledError"]

\* the task is cancelled during the sleep of line 58 that follows a page: the
\* frame of the coroutine, and page_analyses in it, is given up; the variable
\* keeps the list as history
CancelExtraction ==
    /\ pdf_pc = "pages"
    /\ page_num >= 1
    /\ comprehensive_data' = CancelledError
    /\ pdf_pc' = "cancelled"
    /\ UNCHANGED <<doc_len, page_num, page_analyses, failed_pages, synthesis_reply,
                   auditVars, normalizerVars, coordinateVars, excelVars, serviceVars>>

NextPdf == OpenDocument \/ OpenFails \/ ExtractPage \/ Synthesize \/ CancelExtraction

SpecPdf == Init /\ [][NextPdf]_vars

-----------------------------------------------------------------------------
(* Excel analysis as a state machine: analyze_excel_comprehensive *)

SheetNamePrefix == <<"S", "h", "e", "e", "t">>
SheetName(k) == SheetNamePrefix \o Str(k)
GeneralFormat == <<"G", "e", "n", "e", "r", "a", "l">>
IntType == <<"i", "n", "t">>
Revenue == <<"r", "e", "v", "e", "n", "u", "e">>

\* a numeric cell record as lines 238-268 build it
Cell(column, row, value) ==
    JObject((K_cell_ref :> JString(<<column>> \o Str(row)))
         @@ (K_value :> JNumber(value))
         @@ (K_data_type :> JString(IntType))
         @@ (K_number_format :> JString(GeneralFormat)))

\* the numeric cells of a sheet with high cells in column A (1000000, score 4)
\* followed by low cells in column B (5, score 0)
SheetCells(high, low) ==
    [k \in 1..high |-> Cell("A", k, 1000000)] \o [k \in 1..low |-> Cell("B", k, 5)]

\* numbers of high and low cells of sheet k: none or one cell, and for the
\* first sheet also one of each, one cell more than a batch holds, and a high
\* cell before more low cells than a batch holds
SheetShapes(k) ==
    {<<0, 0>>, <<1, 0>>, <<0, 1>>}
    \cup (IF k = 1
          THEN {<<1, 1>>, <<max_cells_per_batch + 1, 0>>, <<0, max_cells_per_batch + 1>>,
                <<1, max_cells_per_batch + 1>>}
          ELSE {})

Workbooks ==
    UNION {{[k \in 1..n |-> [name |-> SheetName(k),
                             numeric_cells |-> SheetCells(shape[k][1], shape[k][2])]] :
                shape \in {f \in [1..n -> SheetShapes(1)] :
                            \A k \in 1..n : f[k] \in SheetShapes(k)}} : n \in 0..MaxSheets}

\* a record of batch_analysis as the prompt asks for it (lines 404-414)
Source(cell, likelihood, category) ==
    JObject((K_cell_reference :> cell.fields[K_cell_ref])
         @@ (K_value :> cell.fields[K_value])
         @@ (K_presentation_likelihood :> likelihood)
         @@ (K_value_category :> category))

BatchAnalysis(items) == ParsedReply(JObject(K_batch_analysis :> JArray(items)))

\* what the LLM call for a batch can do
BatchReplies(cells_batch) ==
    LET c1 == cells_batch[1]
        c2 == cells_batch[Len(cells_batch)]
    IN  {RaiseReply(LongMessage), UnparseableReply,
         \* the less likely cell first, a cell listed twice, a cell below the
         \* threshold, a record without likelihood
         BatchAnalysis(<<Source(c1, JNumber(40), JString(Revenue)),
                         Source(c2, JNumber(90), JString(Revenue)),
                         Source(c2, JNumber(90), JString(Revenue)),
                         Source(c1, JNumber(20), JString(Revenue)),
                         JObject(K_cell_reference :> c2.fields[K_cell_ref])>>),
         \* a likelihood that is no number
         BatchAnalysis(<<Source(c1, JString(<<"h", "i", "g", "h">>), JString(Revenue))>>),
         \* a category that is a list
         BatchAnalysis(<<Source(c1, JNumber(30), JArray(<<JString(Revenue)>>)),
                         Source(c2, JNumber(70), JString(Revenue))>>)}

BatchCall(sheet_name, batch_type, batch_index, cells_batch) ==
    [sheet |-> sheet_name, type |-> batch_type, batch_index |-> batch_index,
     cells |-> [k \in 1..Len(cells_batch) |-> cells_batch[k].fields[K_cell_ref].chars]]

\* sheets_to_process of line 163
SheetsToProcess == Min(Len(wb_sheets), max_sheets_per_workbook)

\* openpyxl.load_workbook, lines 159-163
LoadWorkbook ==
    /\ xl_pc = "idle"
    /\ \E wb \in Workbooks : wb_sheets' = wb
    /\ xl_pc' = "sheet"
    /\ UNCHANGED <<sheet_pos, sheet_numeric, sheet_high, sheet_remaining, next_batch, sheet_sources,
                   workbook_sources, analyses_done, batch_calls, workbook_analysis,
                   auditVars, normalizerVars, coordinateVars, pdfVars, serviceVars>>

\* load_workbook raises: the except of lines 203-205 re-raises
LoadFails ==
    /\ xl_pc = "idle"
    /\ xl_pc' = "raised"
    /\ UNCHANGED <<wb_sheets, sheet_pos, sheet_numeric, sheet_high, sheet_remaining, next_batch,
                   sheet_sources, workbook_sources, analyses_done, batch_calls, workbook_analysis,
                   auditVars, normalizerVars, coordinateVars, pdfVars, serviceVars>>

\* lines 174-181 and 313-327: the structure of the next sheet, its high-value
\* cells and the cells that remain
StartSheet ==
    /\ xl_pc = "sheet"
    /\ sheet_pos < SheetsToProcess
    /\ LET numeric_cells == Scored(wb_sheets[sheet_pos + 1].numeric_cells)
           high_value_cells == identify_high_value_cells(wb_sheets[sheet_pos + 1].numeric_cells)
       IN  /\ sheet_numeric' = numeric_cells
           /\ sheet_high' = high_value_cells
           /\ sheet_remaining' = RemainingCells(numeric_cells, high_value_cells)
    /\ sheet_sources' = <<>>
    /\ next_batch' = 0
    /\ xl_pc' = "high_value"
    /\ UNCHANGED <<wb_sheets, sheet_pos, workbook_sources, analyses_done, batch_calls,
                   workbook_analysis, auditVars, normalizerVars, coordinateVars, pdfVars, serviceVars>>

\* the structure extraction of a sheet raises (line 178): nothing catches it
\* before the except of lines 203-205
SheetFails ==
    /\ xl_pc = "sheet"
    /\ sheet_pos < SheetsToProcess
    /\ xl_pc' = "raised"
    /\ UNCHANGED <<wb_sheets, sheet_pos, sheet_numeric, sheet_high, sheet_remaining, next_batch,
                   sheet_sources, workbook_sources, analyses_done, batch_calls, workbook_analysis,
                   auditVars, normalizerVars, coordinateVars, pdfVars, serviceVars>>

\* lines 321-325: the high-value batch, batch_index 0
AnalyzeHighValue ==
    /\ xl_pc = "high_value"
    /\ LET sheet_name == wb_sheets[sheet_pos + 1].name IN
        IF sheet_high = <<>>
        THEN UNCHANGED <<sheet_sources, batch_calls>>
        ELSE \E reply \in BatchReplies(sheet_high) :
                /\ sheet_sources' = sheet_sources
                        \o analyze_cell_batch_with_gemini(sheet_name, sheet_high, 0, reply)
                /\ batch_calls' = Append(batch_calls,
                                         BatchCall(sheet_name, "high_value", 0, sheet_high))
    /\ xl_pc' = "standard"
    /\ UNCHANGED <<wb_sheets, sheet_pos, sheet_numeric, sheet_high, sheet_remaining, next_batch,
                   workbook_sources, analyses_done, workbook_analysis,
                   auditVars, normalizerVars, coordinateVars, pdfVars, serviceVars>>

\* one iteration of the loop of lines 332-345
AnalyzeBatch ==
    /\ xl_pc = "standard"
    /\ next_batch < TotalBatches(sheet_remaining)
    /\ LET sheet_name == wb_sheets[sheet_pos + 1].name
           batch_cells == BatchCells(sheet_remaining, next_batch)
       IN  \E reply \in BatchReplies(batch_cells) :
            /\ sheet_sources' = sheet_sources
                    \o analyze_cell_batch_with_gemini(sheet_name, batch_cells, next_batch + 1, reply)
            /\ batch_calls' = Append(batch_calls,
                                     BatchCall(sheet_name, "standard", next_batch + 1, batch_cells))
    /\ next_batch' = next_batch + 1
    /\ UNCHANGED <<xl_pc, wb_sheets, sheet_pos, sheet_numeric, sheet_high, sheet_remaining,
                   workbook_sources, analyses_done, workbook_analysis,
                   auditVars, normalizerVars, coordinateVars, pdfVars, serviceVars>>

\* the batches of the sheet are done: lines 347-361 and 182-190
FinishSheet ==
    /\ xl_pc = "standard"
    /\ next_batch >= TotalBatches(sheet_remaining)
    /\ LET sheet_name == wb_sheets[sheet_pos + 1].name
           sheet_analysis == SheetAnalysis(sheet_name, sheet_numeric, sheet_high, sheet_sources,
                                           TotalBatches(sheet_remaining))
           sources == Tagged(sheet_analysis.fields[K_potential_sources].items,
                             sheet_name, sheet_pos)
       IN  \* the analysis holds the very dictionaries that line 188 tags
           /\ analyses_done' = Append(analyses_done,
                    Update(sheet_analysis, JObject(K_potential_sources :> JArray(sources))))
           /\ workbook_sources' = workbook_sources \o sources
    /\ sheet_pos' = sheet_pos + 1
    /\ xl_pc' = "sheet"
    /\ UNCHANGED <<wb_sheets, sheet_numeric, sheet_high, sheet_remaining, next_batch, sheet_sources,
                   batch_calls, workbook_analysis,
                   auditVars, normalizerVars, coordinateVars, pdfVars, serviceVars>>

\* the sheets are done: lines 195-201
SynthesizeWorkbook ==
    /\ xl_pc = "sheet"
    /\ sheet_pos >= SheetsToProcess
    /\ workbook_analysis' = synthesize_comprehensive_excel_workbook(analyses_done, workbook_sources)
    /\ xl_pc' = "done"
    /\ UNCHANGED <<wb_sheets, sheet_pos, sheet_numeric, sheet_high, sheet_remaining, next_batch,
                   sheet_sources, workbook_sources, analyses_done, batch_calls,
                   auditVars, normalizerVars, coordinateVars, pdfVars, serviceVars>>

NextExcel ==
    \/ LoadWorkbook \/ LoadFails \/ StartSheet \/ SheetFails
    \/ AnalyzeHighValue \/ AnalyzeBatch \/ FinishSheet \/ SynthesizeWorkbook

SpecExcel == Init /\ [][NextExcel]_vars

-----------------------------------------------------------------------------
(* The cell loops of the Cell Inventory Builder:
   EnhancedGeminiService._extract_full_excel_sheet_structure and
   ComprehensiveExcelService._extract_comprehensive_sheet_data *)

InventoryServices == {"enhanced_ai_service", "excel_service"}

\* openpyxl.utils.get_column_letter(col), for the columns drawn
get_column_letter(col) == SubSeq(<<"A", "B", "C", "D", "E", "F", "G", "H">>, col, col)

\* cell_ref of lines 233 and 128
CellRef(row, col) == get_column_letter(col) \o Str(row)

LabelText == <<"l", "a", "b", "e", "l">>

\* the value of a populated cell at (row, col): labels in the first row right
\* of the corner, numbers elsewhere
CellValue(row, col) ==
    IF row = 1 /\ col > 1 THEN JString(LabelText) ELSE JNumber(100 * row + col)

\* the row and the column of the cell visited after `at` cells, in the order
\* of the loops of lines 226-227 and 122-123
RowAt(at) == (at \div inv_side) + 1
ColAt(at) == (at % inv_side) + 1

\* what the access to a cell can do: return a value, return None, raise
CellOutcomes ==
    {"value"}
    \cup (IF Cardinality(inv_empty) < MaxEmpty THEN {"none"} ELSE {})
    \cup (IF Cardinality(inv_raised) < MaxFailing THEN {"raises"} ELSE {})

\* the entry of cells_data and of numeric_cells or text_cells for a cell
CellRecord(row, col) ==
    [cell_ref |-> CellRef(row, col), value |-> CellValue(row, col), row |-> row, col |-> col]

\* isinstance(value, (int, float)) and abs(value) > 0 (line 261), value != 0 (line 281)
IsNumericCell(record) == record.value.type = "number" /\ record.value.n # 0

\* isinstance(value, str) and len(value.strip()) > 0 (lines 267 and 297)
IsTextCell(record) == record.value.type = "string" /\ record.value.chars # <<>>

\* the dictionary returned at line 307, or at line 195 by excel_service; the
\* cells drawn carry no formula, date, percentage or currency format and score
\* below the high-priority threshold
InventoryStructure ==
    IF inv_service = "enhanced_ai_service"
    THEN [cells |-> inv_cells,
          numeric_cells |-> inv_numeric,
          text_cells |-> inv_text,
          dimensions |-> [processed_max_row |-> inv_side, processed_max_col |-> inv_side],
          statistics |-> [total_cells |-> Len(inv_cells),
                          numeric_cells_count |-> Len(inv_numeric),
                          text_cells_count |-> Len(inv_text),
                          formula_cells_count |-> 0]]
    ELSE [cells |-> inv_cells,
          comprehensive_categorization |-> [numeric_cells |-> inv_numeric,
                                            text_cells |-> inv_text],
          dimensions |-> [processed_max_row |-> inv_side, processed_max_col |-> inv_side],
          statistics |-> [total_cells |-> Len(inv_cells),
                          numeric_cells_count |-> Len(inv_numeric),
                          text_cells_count |-> Len(inv_text),
                          formula_cells_count |-> 0,
                          date_cells_count |-> 0,
                          percentage_cells_count |-> 0,
                          currency_cells_count |-> 0,
                          high_priority_cells_count |-> 0]]

\* the call: the processed range is known (lines 210-215, 102-108)
StartInventory ==
    /\ inv_pc = "idle"
    /\ \E service \in InventoryServices, side \in 1..MaxSide :
        /\ inv_service' = service
        /\ inv_side' = side
    /\ inv_pc' = "cells"
    /\ UNCHANGED <<inv_at, inv_cells, inv_numeric, inv_text, inv_raised, inv_empty, inv_structure,
                   auditVars, normalizerVars, coordinateVars, pdfVars, excelVars,
                   workbookVars, scorerVars, loopVars, sessionVars>>

\* one iteration of the inner loop: the try of lines 228-276 and 124-141
VisitCell ==
    /\ inv_pc = "cells"
    /\ inv_at < inv_side * inv_side
    /\ LET row == RowAt(inv_at)
           col == ColAt(inv_at)
           record == CellRecord(row, col)
       IN  \E outcome \in CellOutcomes :
            CASE outcome = "raises" ->
                    \* except Exception: continue
                    /\ inv_raised' = inv_raised \cup {<<row, col>>}
                    /\ UNCHANGED <<inv_cells, inv_numeric, inv_text, inv_empty>>
              [] outcome = "none" ->
                    /\ inv_empty' = inv_empty \cup {<<row, col>>}
                    /\ UNCHANGED <<inv_cells, inv_numeric, inv_text, inv_raised>>
              [] OTHER ->
                    /\ inv_cells' = Append(inv_cells, record)
                    /\ inv_numeric' = IF IsNumericCell(record)
                                      THEN Append(inv_numeric, record) ELSE inv_numeric
                    /\ inv_text' = IF ~IsNumericCell(record) /\ IsTextCell(record)
                                   THEN Append(inv_text, record) ELSE inv_text
                    /\ UNCHANGED <<inv_raised, inv_empty>>
    /\ inv_at' = inv_at + 1
    /\ UNCHANGED <<inv_pc, inv_service, inv_side, inv_structure,
                   auditVars, normalizerVars, coordinateVars, pdfVars, excelVars,
                   workbookVars, scorerVars, loopVars, sessionVars>>

\* the loops are done: the dictionary is built and returned
ReturnInventory ==
    /\ inv_pc = "cells"
    /\ inv_at = inv_side * inv_side
    /\ inv_structure' = InventoryStructure
    /\ inv_pc' = "done"
    /\ UNCHANGED <<inv_service, inv_side, inv_at, inv_cells, inv_numeric, inv_text, inv_raised,
                   inv_empty, auditVars, normalizerVars, coordinateVars, pdfVars, excelVars,
                   workbookVars, scorerVars, loopVars, sessionVars>>

NextInventory == StartInventory \/ VisitCell \/ ReturnInventory

SpecInventory == Init /\ [][NextInventory]_vars

-----------------------------------------------------------------------------

(* Workbook extraction: ComprehensiveExcelService.extract_data_comprehensive *)

\* len(workbook.sheetnames) of the workbooks drawn: a few sheets, and as many
\* as are processed at most, and one more
SheetCounts ==
    (0..MaxWorkbook) \cup {max_sheets_to_process, max_sheets_to_process + 1}

\* sheets_to_process of line 32
sheets_to_process == Min(total_sheets, max_sheets_to_process)

\* statistics.total_cells of the dictionary a sheet extraction returns: the
\* largest range drawn for the cell loops, with its failing cells skipped
SheetTotalCells == MaxSide * MaxSide - MaxFailing

\* comprehensive_statistics of lines 37-45
InitialStatistics(total) ==
    [total_sheets |-> total, processed_sheets |-> 0, total_cells_processed |-> 0,
     sheets_skipped |-> 0]

\* lines 57-59: the statistics after a sheet has been extracted
SheetProcessed(statistics) ==
    [statistics EXCEPT !.processed_sheets = @ + 1,
                       !.total_cells_processed = @ + SheetTotalCells]

\* the except branch of lines 63-68 without its counter
SheetSkipped_Uncounted(statistics) == statistics

\* the except branch of lines 63-68
SheetSkipped(statistics) == [statistics EXCEPT !.sheets_skipped = @ + 1]

\* result of lines 73-84
WorkbookResult ==
    [sheets |-> sheets_data,
     metadata |-> [sheet_names |-> sheets_data,
                   total_sheets_in_file |-> total_sheets,
                   processed_sheets |-> Len(sheets_data)],
     comprehensive_statistics |-> comprehensive_statistics]

\* openpyxl.load_workbook and lines 31-45
OpenWorkbook ==
    /\ ws_pc = "idle"
    /\ \E total \in SheetCounts :
        /\ total_sheets' = total
        /\ comprehensive_statistics' = InitialStatistics(total)
    /\ ws_pc' = "sheets"
    /\ UNCHANGED <<ws_pos, sheets_data, ws_failed, ws_result,
                   auditVars, normalizerVars, coordinateVars, pdfVars, excelVars,
                   inventoryVars, scorerVars, loopVars, sessionVars>>

\* load_workbook raises: the except of lines 94-96 re-raises
OpenWorkbookFails ==
    /\ ws_pc = "idle"
    /\ ws_pc' = "raised"
    /\ UNCHANGED <<total_sheets, ws_pos, sheets_data, comprehensive_statistics, ws_failed,
                   ws_result, auditVars, normalizerVars, coordinateVars, pdfVars, excelVars,
                   inventoryVars, scorerVars, loopVars, sessionVars>>

\* one iteration of the loop of line 47 whose try block completes
ExtractSheet ==
    /\ ws_pc = "sheets"
    /\ ws_pos < sheets_to_process
    /\ sheets_data' = Append(sheets_data, SheetName(ws_pos + 1))
    /\ comprehensive_statistics' = SheetProcessed(comprehensive_statistics)
    /\ ws_pos' = ws_pos + 1
    /\ UNCHANGED <<ws_pc, total_sheets, ws_failed, ws_result,
                   auditVars, normalizerVars, coordinateVars, pdfVars, excelVars,
                   inventoryVars, scorerVars, loopVars, sessionVars>>

\* one iteration whose sheet extraction (line 54) raises
SkipSheet ==
    /\ ws_pc = "sheets"
    /\ ws_pos < sheets_to_process
    /\ Cardinality(ws_failed) < MaxSkipped
    /\ ws_failed' = ws_failed \cup {ws_pos + 1}
    /\ comprehensive_statistics' = SheetSkipped(comprehensive_statistics)
    /\ ws_pos' = ws_pos + 1
    /\ UNCHANGED <<ws_pc, total_sheets, sheets_data, ws_result,
                   auditVars, normalizerVars, coordinateVars, pdfVars, excelVars,
                   inventoryVars, scorerVars, loopVars, sessionVars>>

\* the loop is done: lines 70-92
ReturnWorkbook ==
    /\ ws_pc = "sheets"
    /\ ws_pos >= sheets_to_process
    /\ ws_result' = WorkbookResult
    /\ ws_pc' = "done"
    /\ UNCHANGED <<total_sheets, ws_pos, sheets_data, comprehensive_statistics, ws_failed,
                   auditVars, normalizerVars, coordinateVars, pdfVars, excelVars,
                   inventoryVars, scorerVars, loopVars, sessionVars>>

NextWorkbook ==
    OpenWorkbook \/ OpenWorkbookFails \/ ExtractSheet \/ SkipSheet \/ ReturnWorkbook

SpecWorkbook == Init /\ [][NextWorkbook]_vars

-----------------------------------------------------------------------------

(* The Importance Scorer: ComprehensiveExcelService._calculate_presentation_score
   and the score of EnhancedGeminiService._identify_high_value_cells *)

\* the values drawn: both sides of every tier boundary, round and not round,
\* inside and outside the percentage range, and negative ones
ScoreValues ==
    {1, 50, 100, 101, 999, 1000, 1500, 9999, 10000, 10500, 100000, 100500,
     1000000, 1000001, 0 - 50, 0 - 1000}

PercentFormat == <<"0", "%">>
CurrencyFormat == <<"$", "#", ",", "#", "#", "0">>
NumberFormats == {GeneralFormat, PercentFormat, CurrencyFormat}

Abs(value) == IF value < 0 THEN 0 - value ELSE value

\* the cell information _extract_comprehensive_cell_info builds for a cell of
\* this value, number format and font at (row, col), without formula, of
\* default border and fill, merged into the entry of numeric_cells
ComprehensiveCell(value, number_format, bold, row, col) ==
    [cell_ref |-> CellRef(row, col),
     value |-> value,
     number_format |-> number_format,
     is_percentage |-> Contains(number_format, <<"%">>),
     is_currency |-> \E c \in {"$", "EUR", "GBP", "JPY", "INR"} : Contains(number_format, <<c>>),
     font |-> [bold |-> bold, size |-> 11],
     has_borders |-> FALSE,
     has_fill |-> TRUE,
     is_calculated |-> FALSE,
     numeric_analysis |-> [is_large_number |-> Abs(value) >= 1000,
                           is_round_number |-> value # 0 /\ value % 1000 = 0,
                           is_percentage_range |-> 0 <= value /\ value <= 100],
     position_analysis |-> [is_corner_cell |-> row <= 3 /\ col <= 3]]

\* _calculate_presentation_score(cell), for a cell whose value is a number
calculate_presentation_score(cell) ==
    LET abs_value == Abs(cell.value)
    IN  (IF abs_value >= 1000000 THEN 4
         ELSE IF abs_value >= 100000 THEN 3
         ELSE IF abs_value >= 10000 THEN 2
         ELSE IF abs_value >= 1000 THEN 1 ELSE 0)
        + (IF abs_value > 0 /\ abs_value % 1000 = 0 THEN 2 ELSE 0)
        + (IF cell.numeric_analysis.is_percentage_range THEN 2 ELSE 0)
        + (IF cell.font.bold THEN 3 ELSE 0)
        + (IF cell.font.size > 12 THEN 1 ELSE 0)
        + (IF cell.is_currency THEN 2 ELSE 0)
        + (IF cell.is_percentage THEN 2 ELSE 0)
        + (IF cell.has_borders THEN 1 ELSE 0)
        + (IF cell.has_fill THEN 1 ELSE 0)
        + (IF cell.position_analysis.is_corner_cell THEN 1 ELSE 0)

\* the entry of numeric_cells that _extract_full_excel_sheet_structure builds
\* for a cell of this value, number format and font
StructureCell(value, number_format, bold, row, col) ==
    JObject((K_cell_ref :> JString(CellRef(row, col)))
         @@ (K_value :> JNumber(value))
         @@ (K_number_format :> JString(number_format))
         @@ (K_font_bold :> (IF bold THEN JTrue ELSE JFalse))
         @@ (K_font_size :> JNumber(11)))

\* where the two cells scored are: E5, outside the corner of the sheet
ScoredAt == [row |-> 5, col |-> 5]

\* _calculate_presentation_score for two cells that differ in their value
ScorePresentation ==
    /\ scored_cells = <<>>
    /\ \E v1, v2 \in ScoreValues, number_format \in NumberFormats, bold \in BOOLEAN :
        LET c1 == ComprehensiveCell(v1, number_format, bold, ScoredAt.row, ScoredAt.col)
            c2 == ComprehensiveCell(v2, number_format, bold, ScoredAt.row, ScoredAt.col)
        IN  /\ scored_cells' = <<[value |-> v1, number_format |-> number_format, bold |-> bold],
                                 [value |-> v2, number_format |-> number_format, bold |-> bold]>>
            /\ scores' = [by |-> "calculate_presentation_score",
                          of |-> <<calculate_presentation_score(c1),
                                   calculate_presentation_score(c2)>>]
    /\ UNCHANGED <<auditVars, normalizerVars, coordinateVars, pdfVars, excelVars,
                   inventoryVars, workbookVars, loopVars, sessionVars>>

\* the score of _identify_high_value_cells for two cells that differ in their value
ScoreImportance ==
    /\ scored_cells = <<>>
    /\ \E v1, v2 \in ScoreValues, number_format \in NumberFormats, bold \in BOOLEAN :
        LET c1 == StructureCell(v1, number_format, bold, ScoredAt.row, ScoredAt.col)
            c2 == StructureCell(v2, number_format, bold, ScoredAt.row, ScoredAt.col)
        IN  /\ scored_cells' = <<[value |-> v1, number_format |-> number_format, bold |-> bold],
                                 [value |-> v2, number_format |-> number_format, bold |-> bold]>>
            /\ scores' = [by |-> "identify_high_value_cells",
                          of |-> <<ImportanceScore(c1), ImportanceScore(c2)>>]
    /\ UNCHANGED <<auditVars, normalizerVars, coordinateVars, pdfVars, excelVars,
                   inventoryVars, workbookVars, loopVars, sessionVars>>

NextScorer == ScorePresentation \/ ScoreImportance

SpecScorer == Init /\ [][NextScorer]_vars

-----------------------------------------------------------------------------

(* The event loop: AuditService.run_comprehensive_audit gathers its validation
   tasks while an extraction request sends its units to the LLM *)

\* response = self.gemini_model.generate_content(prompt) awaited, so that the
\* event loop runs other tasks until the response arrives
CallHoldsLoop_Awaited == FALSE

\* response = self.gemini_model.generate_content(prompt) is a synchronous
\* call: the thread of the event loop stays inside it until it returns
CallHoldsLoop == TRUE

\* the LLM calls that have begun and not yet returned
InFlight ==
    Cardinality({t \in DOMAIN task_pc : task_pc[t] = "calling"})
    + (IF unit_pc = "calling" THEN 1 ELSE 0)

\* the event loop can run a step of a task
LoopFree == ~CallHoldsLoop \/ InFlight = 0

\* batch of line 43 as asyncio.gather receives it: its tasks, not yet started
GatheredBatch(start) == [t \in 1..Min(GatherSize, mappings - start) |-> "pending"]

\* run_comprehensive_audit is called with n confirmed mappings, while an
\* extraction request has still pages to send (the loop of lines 50-58 of
\* extract_comprehensive_pdf_data)
StartAudit ==
    /\ loop_pc = "idle"
    /\ \E n \in 0..MaxMappings :
        /\ mappings' = n
        /\ task_pc' = [t \in 1..Min(GatherSize, n) |-> "pending"]
    /\ units_left' = MaxUnits
    /\ batch_start' = 0
    /\ loop_pc' = "gather"
    /\ UNCHANGED <<unit_pc, auditVars, normalizerVars, coordinateVars, pdfVars, excelVars,
                   inventoryVars, workbookVars, scorerVars, sessionVars>>

\* a task of the gathered batch runs _validate_single_mapping up to the LLM
\* call of validate_value
TaskCalls ==
    /\ loop_pc = "gather"
    /\ LoopFree
    /\ \E t \in DOMAIN task_pc :
        /\ task_pc[t] = "pending"
        /\ task_pc' = [task_pc EXCEPT ![t] = "calling"]
    /\ UNCHANGED <<loop_pc, mappings, batch_start, units_left, unit_pc,
                   auditVars, normalizerVars, coordinateVars, pdfVars, excelVars,
                   inventoryVars, workbookVars, scorerVars, sessionVars>>

\* the LLM call of a task returns or raises; the task runs to its return
\* (track_ai_usage does not suspend)
TaskReturns ==
    /\ loop_pc = "gather"
    /\ \E t \in DOMAIN task_pc :
        /\ task_pc[t] = "calling"
        /\ task_pc' = [task_pc EXCEPT ![t] = "done"]
    /\ UNCHANGED <<loop_pc, mappings, batch_start, units_left, unit_pc,
                   auditVars, normalizerVars, coordinateVars, pdfVars, excelVars,
                   inventoryVars, workbookVars, scorerVars, sessionVars>>

\* asyncio.gather returns: the next iteration of the loop of line 42, or the
\* end of the loop
GatherReturns ==
    /\ loop_pc = "gather"
    /\ LoopFree
    /\ \A t \in DOMAIN task_pc : task_pc[t] = "done"
    /\ batch_start' = batch_start + GatherSize
    /\ IF batch_start + GatherSize < mappings
       THEN /\ task_pc' = GatheredBatch(batch_start + GatherSize)
            /\ loop_pc' = loop_pc
       ELSE /\ task_pc' = <<>>
            /\ loop_pc' = "done"
    /\ UNCHANGED <<mappings, units_left, unit_pc,
                   auditVars, normalizerVars, coordinateVars, pdfVars, excelVars,
                   inventoryVars, workbookVars, scorerVars, sessionVars>>

\* the extraction request sends its next unit to the LLM
UnitCalls ==
    /\ loop_pc # "idle"
    /\ unit_pc = "ready"
    /\ units_left > 0
    /\ LoopFree
    /\ unit_pc' = "calling"
    /\ UNCHANGED <<loop_pc, mappings, batch_start, task_pc, units_left,
                   auditVars, normalizerVars, coordinateVars, pdfVars, excelVars,
                   inventoryVars, workbookVars, scorerVars, sessionVars>>

\* the LLM call of the unit returns or raises; the request reaches its
\* await asyncio.sleep
UnitReturns ==
    /\ unit_pc = "calling"
    /\ unit_pc' = "sleeping"
    /\ UNCHANGED <<loop_pc, mappings, batch_start, task_pc, units_left,
                   auditVars, normalizerVars, coordinateVars, pdfVars, excelVars,
                   inventoryVars, workbookVars, scorerVars, sessionVars>>

\* the sleep of the extraction request is over: the next iteration of its loop
UnitWakes ==
    /\ unit_pc = "sleeping"
    /\ LoopFree
    /\ unit_pc' = "ready"
    /\ units_left' = units_left - 1
    /\ UNCHANGED <<loop_pc, mappings, batch_start, task_pc,
                   auditVars, normalizerVars, coordinateVars, pdfVars, excelVars,
                   inventoryVars, workbookVars, scorerVars, sessionVars>>

NextLoop ==
    \/ StartAudit \/ TaskCalls \/ TaskReturns \/ GatherReturns
    \/ UnitCalls \/ UnitReturns \/ UnitWakes

SpecLoop == Init /\ [][NextLoop]_vars

-----------------------------------------------------------------------------

(* The audit session endpoint: create_audit_session and run_audit *)

\* the lists of confirmed mappings a session is created with: never empty
\* (line 1490), each mapping by what the audit does with it
ConfirmedLists == UNION {[1..n -> MappingKinds] : n \in 1..MaxConfirmed}

\* whether ai_service.run_comprehensive_audit raises. It catches every
\* Exception of the LLM path and falls back to _fallback_mock_audit (lines 254,
\* 303-305), and validate_mapping falls back to _fallback_mock_validation
\* (lines 193, 247-249); the fallback raises on mapping.get of a mapping that
\* is not a dictionary and on confidence >= 0.9 of a confidence that is not a
\* number. llm_answers: the service is enabled and the LLM gave a usable reply
\* for the mappings, so that no fallback ran.
AuditRaises(confirmed_mappings, llm_answers) ==
    \/ \E k \in 1..Len(confirmed_mappings) : confirmed_mappings[k] = "other"
    \/ /\ ~llm_answers
       /\ \E k \in 1..Len(confirmed_mappings) : confirmed_mappings[k] = "odd_confidence"

\* the handlers that are between their first commit and their return
InHandler == {r \in 1..MaxRequests : requests[r].pc \in {"running", "audited"}}

\* a server process runs one handler at a time from its first line to its
\* return: the coroutines awaited at lines 1580, 268 and 289 never suspend
\* (generate_content at line 238 and time.sleep at line 273 block the event
\* loop), so only handlers of different server processes interleave
WorkerFree(w) == \A r \in InHandler : requests[r].worker # w

\* the columns an UPDATE of the row writes at a commit: the unit of work
\* leaves out an attribute set to the value the object was loaded with
Written(row, loaded_status, status) ==
    IF status = loaded_status THEN row ELSE [row EXCEPT !.status = status]

\* POST /api/audit/create stores the session with status "pending"
CreateAuditSession ==
    /\ audit_session = NoSession
    /\ \E confirmed_mappings \in ConfirmedLists :
        audit_session' = [status |-> "pending",
                          mapping_data |-> confirmed_mappings,
                          audit_results |-> JNull,
                          completion_date |-> JNull]
    /\ UNCHANGED <<requests, audit_runs, utcnow,
                   auditVars, normalizerVars, coordinateVars, pdfVars, excelVars,
                   inventoryVars, workbookVars, scorerVars, loopVars>>

\* a request reaches run_audit on a server process: lines 1551-1570
BeginRun ==
    \E r \in 1..MaxRequests, w \in 1..MaxWorkers :
        /\ requests[r].pc = "waiting"
        /\ \A q \in 1..(r - 1) : requests[q].pc # "waiting"
        /\ WorkerFree(w)
        /\ IF audit_session = NoSession
           THEN /\ requests' = [requests EXCEPT ![r] =
                        [@ EXCEPT !.pc = "done", !.worker = w,
                                  !.response = [code |-> 404]]]
                /\ UNCHANGED audit_session
           ELSE IF audit_session.status = "completed"
           THEN /\ requests' = [requests EXCEPT ![r] =
                        [@ EXCEPT !.pc = "done", !.worker = w,
                                  !.response = [code |-> 200, status |-> "already_completed",
                                                audit_results |-> audit_session.audit_results,
                                                completion_date |-> audit_session.completion_date]]]
                /\ UNCHANGED audit_session
           ELSE /\ audit_session' = [audit_session EXCEPT !.status = "in_progress"]
                /\ requests' = [requests EXCEPT ![r] =
                        [@ EXCEPT !.pc = "running", !.worker = w, !.began = TRUE]]
    /\ UNCHANGED <<audit_runs, utcnow,
                   auditVars, normalizerVars, coordinateVars, pdfVars, excelVars,
                   inventoryVars, workbookVars, scorerVars, loopVars>>

\* lines 1572-1580: the object expired by the commit is loaded again at the
\* access to mapping_data, then the AI audit runs and returns or raises
RunAudit ==
    \E r \in 1..MaxRequests, llm_answers \in BOOLEAN :
        /\ requests[r].pc = "running"
        /\ IF audit_session.mapping_data = <<>>
           THEN \* HTTPException 400 of line 1577, no audit
                /\ requests' = [requests EXCEPT ![r] =
                        [@ EXCEPT !.pc = "audited", !.loaded = audit_session.status,
                                  !.raised = TRUE]]
                /\ UNCHANGED audit_runs
           ELSE /\ audit_runs' = audit_runs + 1
                /\ requests' = [requests EXCEPT ![r] =
                        [@ EXCEPT !.pc = "audited", !.loaded = audit_session.status,
                                  !.raised = AuditRaises(audit_session.mapping_data, llm_answers),
                                  !.audit_results = [run |-> audit_runs + 1]]]
    /\ UNCHANGED <<audit_session, utcnow,
                   auditVars, normalizerVars, coordinateVars, pdfVars, excelVars,
                   inventoryVars, workbookVars, scorerVars, loopVars>>

\* lines 1582-1593: the results are saved and returned
SaveResults ==
    \E r \in 1..MaxRequests :
        /\ requests[r].pc = "audited"
        /\ ~requests[r].raised
        /\ utcnow' = utcnow + 1
        /\ audit_session' =
                Written([audit_session EXCEPT !.audit_results = requests[r].audit_results,
                                              !.completion_date = [at |-> utcnow + 1]],
                        requests[r].loaded, "completed")
        /\ requests' = [requests EXCEPT ![r] =
                [@ EXCEPT !.pc = "done",
                          !.response = [code |-> 200, status |-> "completed",
                                        audit_results |-> requests[r].audit_results,
                                        completion_date |-> [at |-> utcnow + 1]]]]
    /\ UNCHANGED <<audit_runs,
                   auditVars, normalizerVars, coordinateVars, pdfVars, excelVars,
                   inventoryVars, workbookVars, scorerVars, loopVars>>

\* lines 1595-1598: the except branch
FailRun ==
    \E r \in 1..MaxRequests :
        /\ requests[r].pc = "audited"
        /\ requests[r].raised
        /\ audit_session' = Written(audit_session, requests[r].loaded, "failed")
        /\ requests' = [requests EXCEPT ![r] =
                [@ EXCEPT !.pc = "done", !.response = [code |-> 500]]]
    /\ UNCHANGED <<audit_runs, utcnow,
                   auditVars, normalizerVars, coordinateVars, pdfVars, excelVars,
                   inventoryVars, workbookVars, scorerVars, loopVars>>

NextSession == CreateAuditSession \/ BeginRun \/ RunAudit \/ SaveResults \/ FailRun

SpecSession == Init /\ [][NextSession]_vars

-----------------------------------------------------------------------------

(* Properties of the Audit Engine *)

\* positions (1-based, in pdf_values) of the values of batch b
BatchPositions(b) ==
    (batch_size * (b - 1) + 1)..Min(batch_size * b, Len(pdf_values))

Returned == pc = "done"

StatusOf(r) == Get(r, K_validation_status, JNull)

\* C1: for every pdf_values of length N and every excel_values, the empty list
\* included, the report holds one AuditResult per input value:
\* len(detailed_results) = N and summary.total_values_checked = N.
C1_OneResultPerValue ==
    Returned =>
        /\ Len(report.detailed_results) = Len(pdf_values)
        /\ report.summary.total_values_checked = Len(pdf_values)

C3_ResultRefersToItsValue ==
    \A k \in 1..Len(all_audit_results) :
        Get(all_audit_results[k], K_pdf_value_id, JNull) = Get(pdf_values[k], K_id, JNull)

C9_AccuracyFormula ==
    Returned =>
        LET results == report.detailed_results
            total == report.summary.total_values_checked
            accuracy == report.summary.overall_accuracy
            matched == Cardinality({k \in 1..Len(results) :
                                        StatusOf(results[k]) = JString(S_matched)})
            formatting == Cardinality({k \in 1..Len(results) :
                                        StatusOf(results[k]) = JString(S_formatting_difference)})
        IN  /\ accuracy.den > 0
            /\ total = 0 => accuracy.num = 0
            /\ total > 0 =>
                /\ accuracy.num * total = (matched + formatting) * 100 * accuracy.den
                /\ report.summary.matched = matched
                /\ report.summary.formatting_differences = formatting
            /\ 0 <= accuracy.num /\ accuracy.num <= 100 * accuracy.den

\* a report with matched, formatting-difference and other results
C9_Witness ==
    /\ Returned
    /\ report.summary.total_values_checked > 0
    /\ report.summary.matched > 0
    /\ report.summary.formatting_differences > 0
    /\ report.summary.matched + report.summary.formatting_differences
        < report.summary.total_values_checked

\* accuracies k / t * 100 the tiers are probed with
MaxProbeTotal == 20
ProbeAccuracies == {Ratio(k * 100, t) : k \in 0..MaxProbeTotal, t \in 1..MaxProbeTotal}
TierRank(tier) == CASE tier = "low" -> 0 [] tier = "medium" -> 1 [] tier = "high" -> 2

\* C10: risk_assessment of every report, the early return included, is decided
\* by overall_accuracy alone: low from 85 up, medium from 70 to below 85, high
\* below 70; and no accuracy at least as high has a worse tier.
C10_RiskTierByAccuracy ==
    Returned =>
        LET accuracy == report.summary.overall_accuracy IN
        /\ report.risk_assessment =
            (IF accuracy.num >= 85 * accuracy.den THEN "low"
             ELSE IF accuracy.num >= 70 * accuracy.den THEN "medium"
             ELSE "high")
        /\ \A a \in ProbeAccuracies :
            a.num * accuracy.den >= accuracy.num * a.den =>
                TierRank(RiskAssessment(a)) <= TierRank(report.risk_assessment)

\* a report in the middle tier (5 of 6 values matched)
C10_Witness ==
    /\ Returned
    /\ report.risk_assessment = "medium"
    /\ report.summary.total_values_checked > batch_size

-----------------------------------------------------------------------------
(* Properties of the Response Normalizer *)

Normalized == normalized # NotCalled

\* C5: for every response text and every context string the pipeline uses,
\* the normalizer returns a dictionary; when neither strict parsing nor
\* recovery succeeds, the dictionary carries an error field and the key its
\* caller expects (extracted_values for a page, batch_analysis for a cell
\* batch, batch_results for an audit batch) bound to an empty list.
C5_FallbackCarriesExpectedKey ==
    Normalized =>
        /\ normalized.result.type = "object"
        /\ normalized.path = "fallback" =>
            /\ K_error \in DOMAIN normalized.result.fields
            /\ context_kind \in DOMAIN ExpectedKey =>
                Get(normalized.result, ExpectedKey[context_kind], JNull) = JArray(<<>>)

\* the known-key array recovery of lines 1019-1045, applied to the reply
KnownKeyArray == RecoverFrom(reply_text, 1)

\* C6: the normalizer falls back only after the known-key array recovery has
\* been attempted, so a reply whose extracted_values, potential_sources or
\* batch_analysis array is complete and valid never yields the fallback
\* structure, also when the reply holds no balanced {...} span.
C6_FallbackOnlyAfterRecovery ==
    (Normalized /\ normalized.path = "fallback") =>
        /\ normalized.recovery_attempted
        /\ reply_text # NoText => ~KnownKeyArray.found

\* C7: round trip: every rendering of a payload that is valid JSON of the
\* target schema (fenced, with trailing commas, single quotes, bare keys or
\* True/False/None, or the payload as it is) comes back equal to the payload.
C7_RoundTrip ==
    (Normalized /\ payload # NoPayload) =>
        normalized.result = json_loads(payload).val

-----------------------------------------------------------------------------
(* Properties of the coordinate validation *)

\* the four numbers of the box of value k of a page dictionary
BoxOf(result, k) ==
    LET b == result.fields[K_extracted_values].items[k].fields[K_coordinates]
                .fields[K_bounding_box].items
    IN  [j \in 1..4 |-> b[j].n]

\* value k of the page reply carries a box of four numbers
HasFourNumbers(k) ==
    LET value == page_result.fields[K_extracted_values].items[k] IN
    /\ value.type = "object"
    /\ K_coordinates \in DOMAIN value.fields
    /\ value.fields[K_coordinates].type = "object"
    /\ K_bounding_box \in DOMAIN value.fields[K_coordinates].fields
    /\ LET bbox == value.fields[K_coordinates].fields[K_bounding_box] IN
        /\ bbox.type = "array"
        /\ Len(bbox.items) = 4
        /\ \A j \in 1..4 : bbox.items[j].type = "number"

WellFormedBox(b) ==
    /\ 0 <= b[1] /\ b[1] <= b[3] /\ b[3] <= One
    /\ 0 <= b[2] /\ b[2] <= b[4] /\ b[4] <= One
    /\ b[3] - b[1] >= MinBoxSize
    /\ b[4] - b[2] >= MinBoxSize

\* C8: for any input box of four numbers, the box written satisfies
\* 0 <= x1 <= x2 <= 1, 0 <= y1 <= y2 <= 1, x2 - x1 >= 0.01 and y2 - y1 >= 0.01.
C8_BoxWellFormed ==
    (enhanced # NotCalled /\ ~enhanced.raised
        /\ Get(page_result, K_extracted_values, JNull).type = "array") =>
        \A k \in 1..Len(page_result.fields[K_extracted_values].items) :
            HasFourNumbers(k) => WellFormedBox(BoxOf(enhanced.result, k))

\* the returned value has the shape of an audit report (lines 645-650, 680-691)
IsAuditReport(r) == {"summary", "detailed_results", "risk_assessment"} \subseteq DOMAIN r

\* C11: the audit surfaces a blocking error instead of an audit report exactly
\* when pdf_values and excel_values are both empty.
C11_BlockingErrorIffNoInput ==
    Returned =>
        ((pdf_values = <<>> /\ excel_values = <<>>) <=> ~IsAuditReport(report))

-----------------------------------------------------------------------------
(* Properties of the PDF extraction *)

PdfReturned == pdf_pc = "done"

\* the values of the pages, in page order, each with its page's number
AllValues == AllValuesFrom(page_analyses, 1, <<>>).values

\* the page results, had every failed page answered with no value instead
WithoutFailures ==
    [k \in 1..Len(page_analyses) |->
        IF k \in failed_pages
        THEN JObject((K_page_number :> JNumber(k)) @@ (K_extracted_values :> JArray(<<>>)))
        ELSE page_analyses[k]]

\* the document-level output tells a failed page from a page without values
FailuresReflected ==
    comprehensive_data # synthesize_document_analysis(WithoutFailures, synthesis_reply).result

\* C12: when the extraction of a page raises, the later pages are still
\* processed, there is one page result per page, the failed page contributes
\* no value, the document output holds the values of the other pages, and the
\* failure is reflected in the document-level output.
C12_PageFailureContained ==
    (PdfReturned /\ failed_pages # {}) =>
        /\ Len(page_analyses) = doc_len
        /\ \A k \in failed_pages :
            /\ Get(page_analyses[k], K_page_number, JNull) = JNumber(k)
            /\ Get(page_analyses[k], K_extracted_values, JNull) = JArray(<<>>)
        /\ Get(comprehensive_data, K_all_extracted_values, JNull) = JArray(AllValues)
        /\ FailuresReflected

\* C13: all_extracted_values of the document output is the concatenation, in
\* page order, of the pages' extracted_values, whatever the synthesis call
\* returned or raised.
C13_AllValuesAreConcatenation ==
    PdfReturned =>
        Get(comprehensive_data, K_all_extracted_values, JNull) = JArray(AllValues)

-----------------------------------------------------------------------------
(* Properties of the Excel analysis *)

ExcelReturned == xl_pc = "done"

\* potential_sources of the returned workbook analysis
ReturnedSources == workbook_analysis.fields[K_potential_sources].items

SortedByLikelihood(sources) ==
    \A k \in 1..(Len(sources) - 1) :
        NumberOf(sources[k], K_presentation_likelihood)
            >= NumberOf(sources[k + 1], K_presentation_likelihood)

\* C14: the potential_sources returned by analyze_excel_comprehensive, on the
\* normal and on the error return of _synthesize_comprehensive_excel_workbook,
\* are ordered by presentation_likelihood non-increasing, a missing
\* likelihood counting as 0, whatever likelihoods the LLM returned.
C14_SourcesSortedByLikelihood ==
    ExcelReturned => SortedByLikelihood(ReturnedSources)

\* the error return, for sources of two sheets that were not in order when
\* the sheets were merged
C14_Witness ==
    /\ ExcelReturned
    /\ K_synthesis_error \in DOMAIN workbook_analysis.fields
    /\ Len(analyses_done) >= 2
    /\ ~SortedByLikelihood(workbook_sources)
    /\ Len(ReturnedSources) = Len(workbook_sources)

\* the cell address of a source; the sources of one workbook come from one
\* file, so that the pair (source_file, cell_reference) is told by the address
CellReference(source) == Get(source, K_cell_reference, JNull)

\* C15: in the workbook-level potential_sources returned by
\* analyze_excel_comprehensive no two entries share the same
\* (source_file, cell_reference) pair, for any workbook and any LLM replies.
C15_UniqueCellReferences ==
    ExcelReturned =>
        \A j, k \in 1..Len(ReturnedSources) :
            j # k => CellReference(ReturnedSources[j]) # CellReference(ReturnedSources[k])

\* C16: every cell-batch LLM call issued while a sheet is analysed carries at
\* most max_cells_per_batch (200) cell records, the high-value batch included.
C16_BatchWithinLimit ==
    \A k \in 1..Len(batch_calls) : Len(batch_calls[k].cells) <= max_cells_per_batch

-----------------------------------------------------------------------------
(* Properties of the Cell Inventory Builder *)

InventoryReturned == inv_pc = "done"

\* the cells of the processed range
RangeCells == (1..inv_side) \X (1..inv_side)

\* the cells a list of records is about
CellsOf(records) == {<<records[k].row, records[k].col>> : k \in 1..Len(records)}

\* the counts the returned dictionary reports
ReportedCounts == {inv_structure.statistics[k] : k \in DOMAIN inv_structure.statistics}

\* C17: the Cell Inventory Builder never raises because of one cell: when
\* access to a cell of the processed range raises, that cell is skipped,
\* records are returned for all other non-empty cells of the range, and the
\* number of skipped cells is reported in an error tally.
C17_FailingCellSkippedAndCounted ==
    InventoryReturned =>
        /\ CellsOf(inv_structure.cells) = RangeCells \ (inv_raised \cup inv_empty)
        /\ Len(inv_structure.cells) = Cardinality(CellsOf(inv_structure.cells))
        /\ inv_raised # {} => Cardinality(inv_raised) \in ReportedCounts

-----------------------------------------------------------------------------
(* Properties of the workbook extraction *)

WorkbookReturned == ws_pc = "done"

\* C18: in extract_data_comprehensive a sheet whose extraction raises is
\* skipped without aborting the workbook: it contributes no entry to sheets,
\* the remaining sheets are still processed, and on return
\* processed_sheets + sheets_skipped = min(total_sheets, 50) with
\* processed_sheets equal to the number of entries in sheets.
C18_SkippedSheetsCounted ==
    WorkbookReturned =>
        LET statistics == ws_result.comprehensive_statistics
            processed == 1..Min(total_sheets, max_sheets_to_process)
        IN  /\ {ws_result.sheets[k] : k \in 1..Len(ws_result.sheets)}
                    = {SheetName(k) : k \in processed \ ws_failed}
            /\ statistics.processed_sheets + statistics.sheets_skipped
                    = Min(total_sheets, max_sheets_to_process)
            /\ statistics.processed_sheets = Len(ws_result.sheets)
            /\ statistics.sheets_skipped = Cardinality(ws_failed)

\* a workbook of more sheets than are processed has been returned, with a
\* sheet skipped before the last one processed
C18_Witness ==
    /\ WorkbookReturned
    /\ total_sheets > max_sheets_to_process
    /\ ws_failed # {}
    /\ \E k \in ws_failed : k < max_sheets_to_process
    /\ Len(ws_result.sheets) = max_sheets_to_process - Cardinality(ws_failed)

-----------------------------------------------------------------------------
(* Properties of the Importance Scorer *)

\* the magnitude tier of a value: below 1e3, >= 1e3, >= 1e4, >= 1e5, >= 1e6
Tier(value) ==
    IF Abs(value) >= 1000000 THEN 4
    ELSE IF Abs(value) >= 100000 THEN 3
    ELSE IF Abs(value) >= 10000 THEN 2
    ELSE IF Abs(value) >= 1000 THEN 1 ELSE 0

\* C19: for two numeric cell records that differ only in their value, if |v1|
\* lies in a lower or equal magnitude tier than |v2|, the importance score of
\* the first is less than or equal to that of the second, in
\* _calculate_presentation_score and in _identify_high_value_cells.
C19_ScoreMonotoneInTier ==
    scored_cells # <<>> =>
        \A a, b \in 1..2 :
            Tier(scored_cells[a].value) <= Tier(scored_cells[b].value)
                => scores.of[a] <= scores.of[b]

-----------------------------------------------------------------------------
(* Properties of the event loop *)

-----------------------------------------------------------------------------

\* the entry the reply of batch b holds at the place of value k, None when
\* the reply has no entry there
RecordFor(b, k) ==
    LET pos == k - batch_size * (b - 1) IN
    IF pos <= Len(replies[b].items) THEN replies[b].items[pos] ELSE JNull

\* C22: within one batch, a well-formed record at position i is used as the
\* result of value i even when another entry of the same reply is malformed
\* (no JSON object); only the value of the malformed entry is synthesized.
C22_WellFormedRecordsKept ==
    \A b \in 1..Len(replies) : \A k \in BatchPositions(b) :
        RecordFor(b, k).type = "object" =>
            /\ StatusOf(all_audit_results[k]) = StatusOf(RecordFor(b, k))
            /\ Get(all_audit_results[k], K_audit_reasoning, JNull)
                = Get(RecordFor(b, k), K_audit_reasoning, JNull)

(* Properties of the BOUNDED step *)

\* opening minus closing braces among the characters a..p of s
BraceDepth(s, a, p) ==
    Cardinality({q \in a..p : s[q] = "{"}) - Cardinality({q \in a..p : s[q] = "}"})

\* s[a..b] is a balanced {...} span: it opens at a and b is the first place
\* where as many braces were closed as were opened
BalancedSpan(s, a, b) ==
    /\ s[a] = "{"
    /\ s[b] = "}"
    /\ BraceDepth(s, a, b) = 0
    /\ \A p \in a..(b - 1) : BraceDepth(s, a, p) > 0

BalancedSpans(s) ==
    {span \in (1..Len(s)) \X (1..Len(s)) : span[1] < span[2] /\ BalancedSpan(s, span[1], span[2])}

\* the text the BOUNDED step scans, once a reply was normalized
Scanned == StripFences(reply_text)

\* C23: the BOUNDED step selects the first balanced {...} span of the stripped
\* text whenever one exists, for every arrangement of braces (a stray } before
\* the first {, text after the span), and reports a missing span only when the
\* text holds no balanced span.
C23_FirstBalancedSpanSelected ==
    (normalized # NotCalled /\ reply_text # NoText) =>
        LET found == ScanBraces(Scanned, 1, 0, 0)
            missing == found.json_start = 0 \/ found.json_end = 0
        IN  IF BalancedSpans(Scanned) = {}
            THEN missing
            ELSE /\ ~missing
                 /\ <<found.json_start, found.json_end>> \in BalancedSpans(Scanned)
                 /\ \A span \in BalancedSpans(Scanned) : found.json_start <= span[1]
                 \* the ValueError of line 971 was not raised
                 /\ ~(normalized.path = "fallback" /\ ~normalized.recovery_attempted)

(* Properties of the coordinate defaults *)

\* value['coordinates']['bounding_box'] of a value, None when it has none
BoundingBoxOf(value) ==
    IF Get(value, K_coordinates, JNull).type = "object"
    THEN Get(value.fields[K_coordinates], K_bounding_box, JNull)
    ELSE JNull

\* C24: for every value the LLM returns for a page, a malformed or missing
\* bounding box (no coordinates, a wrong number of elements, non-numeric or
\* null elements) is replaced by the default box [0.1, 0.1, 0.2, 0.2], and the
\* value and all other values of the page are kept.
C24_MalformedBoxDefaulted ==
    (enhanced # NotCalled /\ Get(page_result, K_extracted_values, JNull).type = "array") =>
        /\ ~enhanced.raised
        /\ LET values == page_result.fields[K_extracted_values].items
               kept == enhanced.result.fields[K_extracted_values].items
           IN  /\ Len(kept) = Len(values)
               /\ \A k \in 1..Len(values) :
                    /\ Get(kept[k], K_id, JNull) = Get(values[k], K_id, JNull)
                    /\ ~HasFourNumbers(k) => BoundingBoxOf(kept[k]) = Numbers(DefaultBox)

(* Properties of the page numbers *)

\* the values of the document-level value set
DocumentValues ==
    IF Get(comprehensive_data, K_all_extracted_values, JNull).type = "array"
    THEN comprehensive_data.fields[K_all_extracted_values].items
    ELSE <<>>

\* the pages whose reply held the value: its id is value_<page>_<k>
PagesOf(value) ==
    {p \in 1..doc_len :
        StartsWith(Get(value, K_id, JString(<<>>)).chars, ValueIdPrefix \o Str(p) \o <<"_">>)}

\* C25: every value of the document-level value set carries the 1-based index
\* of the page it was extracted from as its page_number (never 0, never the
\* number of another page), whatever page_number the LLM wrote in its reply,
\* and also after recovery or fallback.
C25_PageNumberIsPageIndex ==
    PdfReturned =>
        \A k \in 1..Len(DocumentValues) :
            /\ PagesOf(DocumentValues[k]) # {}
            /\ \A p \in PagesOf(DocumentValues[k]) :
                Get(DocumentValues[k], K_page_number, JNull) = JNumber(p)

(* Properties of the cell batches *)

\* the LLM batch calls issued for sheet s, as positions of batch_calls
CallsOf(s) == {c \in 1..Len(batch_calls) : batch_calls[c].sheet = wb_sheets[s].name}

\* no call of _analyze_excel_sheet_comprehensive_batched is in progress
BetweenSheets == xl_pc \in {"sheet", "done", "raised"}

\* the cell references of the numeric cells of sheet s, in list order
NumericRefs(s) ==
    Listed([k \in 1..Len(wb_sheets[s].numeric_cells) |->
                wb_sheets[s].numeric_cells[k].fields[K_cell_ref].chars])

\* the calls of sheet s of one batch type
CallsOfType(s, batch_type) == {c \in CallsOf(s) : batch_calls[c].type = batch_type}

\* the references handed to the high-value batch of sheet s
HighValueRefs(s) ==
    UNION {{batch_calls[c].cells[m] : m \in 1..Len(batch_calls[c].cells)} :
                c \in CallsOfType(s, "high_value")}

\* the references handed to the standard batches of sheet s, in the order sent
StandardRefs(s) ==
    LET Sent[c \in 0..Len(batch_calls)] ==
            IF c = 0 THEN <<>>
            ELSE IF c \in CallsOfType(s, "standard") THEN Sent[c - 1] \o batch_calls[c].cells
            ELSE Sent[c - 1]
    IN  Sent[Len(batch_calls)]

\* the references of sheet s that no high-value batch holds, in list order
RefsLeft(s) ==
    LET high == HighValueRefs(s)
        Left(ref) == ref \notin high
    IN  SelectSeq(NumericRefs(s), Left)

\* C26: in _analyze_excel_sheet_comprehensive_batched every numeric cell of the
\* sheet is included in exactly one LLM batch, the high-value batch (sent first,
\* batch_index 0) or exactly one standard batch; the standard batches are sent
\* afterwards in list order; total_batches_processed is the number of LLM batch
\* calls issued for the sheet. The references of a sheet being distinct, a cell
\* is in exactly one batch when the high-value batch holds distinct cells of
\* the sheet and the standard batches, one after the other, hold the other
\* cells once each in list order.
C26_EachCellInOneBatch ==
    BetweenSheets => \A s \in 1..Len(analyses_done) :
        /\ Cardinality(CallsOfType(s, "high_value")) <= 1
        /\ \A c \in CallsOfType(s, "high_value") :
            /\ batch_calls[c].batch_index = 0
            /\ Cardinality(HighValueRefs(s)) = Len(batch_calls[c].cells)
            /\ \A d \in CallsOfType(s, "standard") : c < d
        /\ HighValueRefs(s) \subseteq
                {wb_sheets[s].numeric_cells[k].fields[K_cell_ref].chars :
                    k \in 1..Len(wb_sheets[s].numeric_cells)}
        /\ StandardRefs(s) = RefsLeft(s)
        /\ \A c \in CallsOfType(s, "standard") :
            batch_calls[c].batch_index
                = Cardinality({d \in CallsOfType(s, "standard") : d <= c})
        /\ CallsOf(s) = CallsOfType(s, "high_value") \cup CallsOfType(s, "standard")
        /\ NumberOf(analyses_done[s].fields[K_analysis_metadata], K_total_batches_processed)
            = Cardinality(CallsOf(s))

\* a returned workbook analysis with a sheet whose cells went to a high-value
\* batch and to two standard batches
C26_Witness ==
    /\ ExcelReturned
    /\ \E s \in 1..Len(analyses_done) :
        /\ Cardinality(CallsOfType(s, "high_value")) = 1
        /\ Cardinality(CallsOfType(s, "standard")) = 2
        /\ Len(StandardRefs(s)) = max_cells_per_batch + 1

(* Properties of a failing sheet *)

\* analyze_excel_comprehensive was left by the exception that the processing
\* of sheet s raised: the sheets from s on were not analysed and no workbook
\* analysis was returned
AbortedAt(s) ==
    /\ xl_pc = "raised"
    /\ sheet_pos = s - 1
    /\ Len(analyses_done) = s - 1
    /\ workbook_analysis = NotCalled

\* C27: in analyze_excel_comprehensive a failure while one sheet is processed
\* does not abort the workbook: the failed sheet contributes no source, the
\* remaining sheets are processed and a workbook analysis is returned.
C27_SheetFailureContained ==
    \A s \in 1..Len(wb_sheets) : ~AbortedAt(s)

(* Properties of the batch loop *)

\* math.ceil(n / batch_size)
BatchesFor(n) == (n + batch_size - 1) \div batch_size

\* the LLM calls issued so far are those of the first batches, one per batch,
\* in batch order, and the results so far are those of their values, in input
\* order
OneCallPerBatch ==
    /\ i = batch_size * Len(replies)
    /\ Len(replies) <= BatchesFor(Len(pdf_values))
    /\ Len(all_audit_results) = Min(i, Len(pdf_values))
    /\ \A k \in 1..Len(all_audit_results) :
        /\ Get(all_audit_results[k], K_original_pdf_data, JNull) = pdf_values[k]
        /\ Get(all_audit_results[k], K_batch_number, JNull)
            = JNumber((k - 1) \div batch_size + 1)

\* the report of an audit of N >= 1 values against a list that is not empty
ReportInInputOrder ==
    (Returned /\ pdf_values # <<>> /\ excel_values # <<>>) =>
        /\ Len(replies) = BatchesFor(Len(pdf_values))
        /\ IsAuditReport(report)
        /\ report.detailed_results = all_audit_results
        /\ Len(report.detailed_results) = Len(pdf_values)

CountedStatuses ==
    {JString(S_matched), JString(S_mismatched), JString(S_formatting_difference),
     JString(S_unverifiable), JString(S_pdf_only)}

\* C29: in every report of run_direct_comprehensive_audit the status counts
\* partition the results: matched + mismatched + formatting_differences +
\* unverifiable + pdf_only = total_values_checked, every result having one of
\* the five statuses, whatever status strings the LLM returned.
C29_CountsPartitionResults ==
    (Returned /\ pdf_values # <<>> /\ excel_values # <<>>) =>
        /\ \A k \in 1..Len(report.detailed_results) :
            StatusOf(report.detailed_results[k]) \in CountedStatuses
        /\ report.summary.matched + report.summary.mismatched
            + report.summary.formatting_differences + report.summary.unverifiable
            + report.summary.pdf_only = report.summary.total_values_checked

(* Properties of the audit session *)

\* the request leaves the handler in this step
Ending(r) == requests[r].pc # "done" /\ requests'[r].pc = "done"

\* the response that hands out what the row holds
StoredResponse ==
    [code |-> 200, status |-> "already_completed",
     audit_results |-> audit_session.audit_results,
     completion_date |-> audit_session.completion_date]

\* C30: for any sequence or interleaving of run_audit requests on one audit
\* session, once the status is "completed" it never changes again: the AI audit
\* is not executed again, audit_results and completion_date are never
\* overwritten, and a request that ends afterwards returns the stored results;
\* and every request that set the status to "in_progress" ends with the status
\* "completed" or "failed".
C30_CompletedIsFinal ==
    [][/\ (audit_session # NoSession /\ audit_session.status = "completed") =>
            /\ audit_session' = audit_session
            /\ audit_runs' = audit_runs
            /\ \A r \in 1..MaxRequests : Ending(r) => requests'[r].response = StoredResponse
       /\ \A r \in 1..MaxRequests :
            (Ending(r) /\ requests[r].began) =>
                audit_session'.status \in {"completed", "failed"}]_vars

(* Properties of cancellation *)

PdfCancelled == pdf_pc = "cancelled"

\* the page results that what the caller received holds
PagesHeldBy(outcome) ==
    IF outcome.type = "object"
    THEN {k \in 1..Len(page_analyses) : \E f \in DOMAIN outcome.fields :
                outcome.fields[f] = JArray(page_analyses)}
    ELSE {}

\* C21: if extract_comprehensive_pdf_data is cancelled while page k is in
\* flight or during a rate-limit sleep, the results of the pages completed
\* before remain available to the caller.
C21_CompletedPagesSurviveCancel ==
    PdfCancelled => PagesHeldBy(comprehensive_data) = 1..Len(page_analyses)

====
